---- MODULE Spec2Model ----
(***************************************************************************)
(* A model of the WordPress MCP server: the tool-call handler of           *)
(* src/src/index.ts (validate -> invoke -> format), the argument schemas   *)
(* and the WordPressApiClient of src/src/logger.ts (request shaping and    *)
(* the classification of failed requests).                                 *)
(*                                                                         *)
(* JavaScript values are tagged records [t |-> type, v |-> value]; an      *)
(* object is a function from its keys to values, an absent key holding     *)
(* Undef.  A function of the program that can throw yields a completion    *)
(* record: Return(value) or Throw(error).                                  *)
(***************************************************************************)
EXTENDS Integers, Sequences, FiniteSets, TLC

(***************************************************************************)
(* JavaScript values                                                       *)
(***************************************************************************)
Undef == [t |-> "undefined", v |-> 0]
Str(s) == [t |-> "string", v |-> s]
Num(n) == [t |-> "number", v |-> n]
Bool(b) == [t |-> "boolean", v |-> b]
Arr(a) == [t |-> "array", v |-> a]
Obj(f) == [t |-> "object", v |-> f]

\* JavaScript truthiness, as used by `if (x)`, `x && ...` and `x || d`.
Truthy(x) ==
  CASE x.t = "undefined" -> FALSE
    [] x.t = "string" -> x.v # ""
    [] x.t = "number" -> x.v # 0
    [] x.t = "boolean" -> x.v
    [] OTHER -> TRUE

\* a || d
OrElse(a, d) == IF Truthy(a) THEN a ELSE d

\* obj.key, Undef when the key is absent (or obj is not an object: obj?.key)
Field(obj, key) ==
  IF obj.t = "object" /\ key \in DOMAIN obj.v THEN obj.v[key] ELSE Undef

Has(obj, key) == Field(obj, key) # Undef

\* The keys an object really has.
Keys(obj) == IF obj.t = "object" THEN {k \in DOMAIN obj.v : obj.v[k] # Undef} ELSE {}

Return(x) == [type |-> "return", value |-> x]
Throw(e) == [type |-> "throw", value |-> e]

\* Array.prototype.join over strings
RECURSIVE Join(_, _)
Join(seq, sep) ==
  IF seq = <<>> THEN ""
  ELSE IF Len(seq) = 1 THEN seq[1]
  ELSE seq[1] \o sep \o Join(Tail(seq), sep)

\* Array.prototype.join over an array of numbers
RECURSIVE JoinNumbers(_, _)
JoinNumbers(seq, sep) ==
  IF seq = <<>> THEN ""
  ELSE IF Len(seq) = 1 THEN ToString(seq[1].v)
  ELSE ToString(seq[1].v) \o sep \o JoinNumbers(Tail(seq), sep)

(***************************************************************************)
(* Strings                                                                 *)
(***************************************************************************)
\* s.endsWith(suffix)
EndsWith(s, suffix) ==
  /\ Len(s) >= Len(suffix)
  /\ SubSeq(s, Len(s) - Len(suffix) + 1, Len(s)) = suffix

\* s.includes(part)
Contains(s, part) ==
  \E i \in 1..(Len(s) - Len(part) + 1) : SubSeq(s, i, i + Len(part) - 1) = part

\* s.substring(0, n)
Substring0(s, n) == IF Len(s) <= n THEN s ELSE SubSeq(s, 1, n)

Digits == {"0", "1", "2", "3", "4", "5", "6", "7", "8", "9"}

DigitValue(c) ==
  CASE c = "0" -> 0 [] c = "1" -> 1 [] c = "2" -> 2 [] c = "3" -> 3 [] c = "4" -> 4
    [] c = "5" -> 5 [] c = "6" -> 6 [] c = "7" -> 7 [] c = "8" -> 8 [] c = "9" -> 9

\* The not-a-number value
NaN == [t |-> "nan", v |-> 0]

\* The value of the digits of s from position i on, up to the first
\* character that is no digit
RECURSIVE DigitsFrom(_, _, _)
DigitsFrom(s, i, acc) ==
  IF i > Len(s) \/ SubSeq(s, i, i) \notin Digits THEN acc
  ELSE DigitsFrom(s, i + 1, acc * 10 + DigitValue(SubSeq(s, i, i)))

\* parseInt(s): leading blanks skipped, an optional sign, then the longest
\* run of digits; NaN when there is no digit to read
RECURSIVE parseInt(_)
parseInt(s) ==
  IF s = "" THEN NaN
  ELSE IF SubSeq(s, 1, 1) = " " THEN parseInt(SubSeq(s, 2, Len(s)))
  ELSE LET signed == SubSeq(s, 1, 1) \in {"-", "+"}
           first == IF signed THEN 2 ELSE 1
       IN IF first > Len(s) \/ SubSeq(s, first, first) \notin Digits THEN NaN
          ELSE Num((IF SubSeq(s, 1, 1) = "-" THEN -1 ELSE 1) * DigitsFrom(s, first, 0))

(***************************************************************************)
(* The schema library (zod): schemas are records, parsing is ParseObject.  *)
(***************************************************************************)
zBase(kind) ==
  [kind |-> kind, hasMin |-> FALSE, min |-> 0, minMsg |-> "",
   hasMax |-> FALSE, max |-> 0, maxMsg |-> "", values |-> {},
   optional |-> FALSE, default |-> Undef]
zString == zBase("string")
zNumber == zBase("number")
zBoolean == zBase("boolean")
zArrayOfNumber == zBase("array")
zEnum(values) == [zBase("enum") EXCEPT !.values = values]
zMin(s, n, msg) == [s EXCEPT !.hasMin = TRUE, !.min = n, !.minMsg = msg]
zMax(s, n, msg) == [s EXCEPT !.hasMax = TRUE, !.max = n, !.maxMsg = msg]
zOptional(s) == [s EXCEPT !.optional = TRUE]
zDefault(s, d) == [s EXCEPT !.default = d]

Issue(path, message) == [path |-> path, message |-> message]

\* The issues of the elements of an array of numbers, in index order.
RECURSIVE ElementIssues(_, _, _)
ElementIssues(key, elems, i) ==
  IF i > Len(elems) THEN <<>>
  ELSE (IF elems[i].t = "number" THEN <<>>
        ELSE <<Issue(<<key, ToString(i - 1)>>,
                     "Expected number, received " \o elems[i].t)>>)
       \o ElementIssues(key, elems, i + 1)

\* The issues one field's schema raises on value x (every failing check).
FieldIssues(key, s, x) ==
  IF x = Undef
  THEN IF s.optional \/ s.default # Undef THEN <<>>
       ELSE <<Issue(<<key>>, "Required")>>
  ELSE
    CASE s.kind = "enum" ->
           IF x.t = "string" /\ x.v \in s.values THEN <<>>
           ELSE <<Issue(<<key>>, "Invalid enum value")>>
      [] s.kind = "array" ->
           IF x.t # "array"
           THEN <<Issue(<<key>>, "Expected array, received " \o x.t)>>
           ELSE ElementIssues(key, x.v, 1)
      [] s.kind = "boolean" ->
           IF x.t # "boolean"
           THEN <<Issue(<<key>>, "Expected boolean, received " \o x.t)>>
           ELSE <<>>
      [] s.kind = "string" ->
           IF x.t # "string"
           THEN <<Issue(<<key>>, "Expected string, received " \o x.t)>>
           ELSE (IF s.hasMin /\ Len(x.v) < s.min
                 THEN <<Issue(<<key>>, s.minMsg)>> ELSE <<>>)
                \o (IF s.hasMax /\ Len(x.v) > s.max
                    THEN <<Issue(<<key>>, s.maxMsg)>> ELSE <<>>)
      [] s.kind = "number" ->
           IF x.t # "number"
           THEN <<Issue(<<key>>, "Expected number, received " \o x.t)>>
           ELSE (IF s.hasMin /\ x.v < s.min
                 THEN <<Issue(<<key>>, s.minMsg)>> ELSE <<>>)
                \o (IF s.hasMax /\ x.v > s.max
                    THEN <<Issue(<<key>>, s.maxMsg)>> ELSE <<>>)

\* The value a field parses to: its default when absent, else itself.
FieldValue(s, x) == IF x = Undef THEN s.default ELSE x

ShapeKeys(shape) == {shape[i][1] : i \in 1..Len(shape)}

ShapeOf(shape, key) ==
  shape[CHOOSE i \in 1..Len(shape) : shape[i][1] = key][2]

\* An object schema that stops at the first field that fails
RECURSIVE ShapeIssuesFirstOnly(_, _, _)
ShapeIssuesFirstOnly(shape, args, i) ==
  IF i > Len(shape) THEN <<>>
  ELSE LET f == FieldIssues(shape[i][1], shape[i][2], Field(args, shape[i][1]))
       IN IF f # <<>> THEN f ELSE ShapeIssuesFirstOnly(shape, args, i + 1)

RECURSIVE ShapeIssues(_, _, _)
ShapeIssues(shape, args, i) ==
  IF i > Len(shape) THEN <<>>
  ELSE FieldIssues(shape[i][1], shape[i][2], Field(args, shape[i][1]))
       \o ShapeIssues(shape, args, i + 1)

\* schema.safeParse(args): an object schema strips unknown keys unless it
\* is strict, and then reports them after the fields' own issues.
ParseObject(schema, args) ==
  IF args.t # "object"
  THEN [success |-> FALSE,
        issues |-> <<Issue(<<>>, IF args = Undef THEN "Required"
                                 ELSE "Expected object, received " \o args.t)>>,
        data |-> Undef]
  ELSE
    LET unknown == Keys(args) \ ShapeKeys(schema.shape)
        issues == ShapeIssues(schema.shape, args, 1)
                  \o (IF schema.strict /\ unknown # {}
                      THEN <<Issue(<<>>, "Unrecognized key(s) in object")>>
                      ELSE <<>>)
    IN [success |-> issues = <<>>,
        issues |-> issues,
        data |-> IF issues # <<>> THEN Undef
                 ELSE Obj([k \in ShapeKeys(schema.shape) |->
                            FieldValue(ShapeOf(schema.shape, k), Field(args, k))])]

\* schema.parse(args): the parsed value, or a thrown ZodError.
Parse(schema, args) ==
  LET r == ParseObject(schema, args)
  IN IF r.success THEN Return(r.data)
     ELSE Throw([name |-> "ZodError", issues |-> r.issues])

(***************************************************************************)
(* The argument schemas of the tools (logger.ts 130-180)                   *)
(***************************************************************************)
PostStatusInput == {"publish", "draft", "private"}

CreatePostArgsSchema ==
  [strict |-> FALSE,
   shape |-> <<
     <<"title", zMax(zMin(zString, 1, "Title is required"), 255, "Title too long")>>,
     <<"content", zMin(zString, 1, "Content is required")>>,
     <<"status", zDefault(zEnum(PostStatusInput), Str("draft"))>>,
     <<"excerpt", zOptional(zString)>>,
     <<"categories", zOptional(zArrayOfNumber)>>,
     <<"tags", zOptional(zArrayOfNumber)>> >>]

UpdatePostArgsSchema ==
  [strict |-> FALSE,
   shape |-> <<
     <<"id", zMin(zNumber, 1, "Post ID must be positive")>>,
     <<"title", zOptional(zMax(zMin(zString, 1, "String must contain at least 1 character(s)"),
                               255, "String must contain at most 255 character(s)"))>>,
     <<"content", zOptional(zMin(zString, 1, "String must contain at least 1 character(s)"))>>,
     <<"status", zOptional(zEnum(PostStatusInput))>>,
     <<"excerpt", zOptional(zString)>>,
     <<"categories", zOptional(zArrayOfNumber)>>,
     <<"tags", zOptional(zArrayOfNumber)>> >>]

DeletePostArgsSchema ==
  [strict |-> FALSE,
   shape |-> <<
     <<"id", zMin(zNumber, 1, "Post ID must be positive")>>,
     <<"force", zDefault(zBoolean, Bool(FALSE))>> >>]

ListPostsArgsSchema ==
  [strict |-> FALSE,
   shape |-> <<
     <<"per_page", zDefault(zMax(zMin(zNumber, 1, "Number must be greater than or equal to 1"),
                                 100, "Number must be less than or equal to 100"), Num(10))>>,
     <<"page", zDefault(zMin(zNumber, 1, "Number must be greater than or equal to 1"), Num(1))>>,
     <<"status", zDefault(zEnum({"publish", "draft", "private", "pending", "future", "any"}),
                          Str("any"))>>,
     <<"search", zOptional(zString)>>,
     <<"author", zOptional(zNumber)>>,
     <<"categories", zOptional(zArrayOfNumber)>>,
     <<"tags", zOptional(zArrayOfNumber)>>,
     <<"order", zDefault(zEnum({"asc", "desc"}), Str("desc"))>>,
     <<"orderby", zDefault(zEnum({"date", "id", "title", "slug", "modified"}), Str("date"))>>,
     <<"include_content", zDefault(zBoolean, Bool(FALSE))>> >>]

GetPostArgsSchema ==
  [strict |-> FALSE,
   shape |-> <<
     <<"id", zMin(zNumber, 1, "Post ID must be positive")>>,
     <<"context", zDefault(zEnum({"view", "embed", "edit"}), Str("edit"))>> >>]

GetCategoriesArgsSchema ==
  [strict |-> TRUE,
   shape |-> <<
     <<"per_page", zOptional(zMax(zMin(zNumber, 1, "Number must be greater than or equal to 1"),
                                  100, "Number must be less than or equal to 100"))>>,
     <<"page", zOptional(zMin(zNumber, 1, "Number must be greater than or equal to 1"))>> >>]

GetTagsArgsSchema ==
  [strict |-> TRUE,
   shape |-> <<
     <<"per_page", zOptional(zMax(zMin(zNumber, 1, "Number must be greater than or equal to 1"),
                                  100, "Number must be less than or equal to 100"))>>,
     <<"page", zOptional(zMin(zNumber, 1, "Number must be greater than or equal to 1"))>> >>]

(***************************************************************************)
(* Errors (logger.ts 190-211, and the SDK's McpError)                      *)
(***************************************************************************)
NoError == [name |-> "none"]

\* new WordPressError(message, code, statusCode); statusCode Undef when not given
WordPressError(message, code, statusCode) ==
  [name |-> "WordPressError", message |-> message, code |-> code,
   statusCode |-> statusCode]

TypeError(message) == [name |-> "TypeError", message |-> message]

\* new McpError(ErrorCode.MethodNotFound, message)
McpError(code, message) ==
  [name |-> "McpError", code |-> code,
   message |-> "MCP error " \o code \o ": " \o message]

(***************************************************************************)
(* ConsoleLogger (logger.ts 3-49)                                          *)
(***************************************************************************)
\* parseLogLevel: the LogLevel enum value of a level name
parseLogLevel(levelString) ==
  CASE levelString = "error" -> 0
    [] levelString = "warn" -> 1
    [] levelString = "info" -> 2
    [] levelString = "debug" -> 3
    [] OTHER -> 2

\* The entries among `entries` a logger of level `levelString` writes:
\* error/warn/info/debug each write when this.level >= their own level.
RECURSIVE Written(_, _)
Written(levelString, entries) ==
  IF entries = <<>> THEN <<>>
  ELSE (IF parseLogLevel(levelString) >= parseLogLevel(entries[1].level)
        THEN <<entries[1]>> ELSE <<>>)
       \o Written(levelString, Tail(entries))

LogEntry(level, message) == [level |-> level, message |-> message]

\* An entry with the texts of the object logged after the message
LogEntryWith(level, message, texts) ==
  [level |-> level, message |-> message, texts |-> texts]

\* The text of a value inside a logged object
TextOf(x) ==
  CASE x.t = "string" -> x.v
    [] x.t = "number" -> ToString(x.v)
    [] OTHER -> ""

(***************************************************************************)
(* WordPressApiClient (logger.ts 244-528)                                  *)
(***************************************************************************)
Request(method, url, data, params) ==
  [method |-> method, url |-> url, data |-> data, params |-> params]

Raw(x) == Obj([raw |-> x])

\* ...(x && {key: value}): the key is set only when x is truthy
SpreadIf(x, value) == IF Truthy(x) THEN value ELSE Undef

\* testConnection (362): the minimal read of the posts collection
testConnectionRequest ==
  Request("get", "/posts", Undef, Obj([per_page |-> Num(1)]))

\* createPost sending an empty list for categories and tags the caller left out
createPostEmptyLists(a) ==
  Request("post", "/posts",
          Obj([title |-> Raw(Field(a, "title")),
               content |-> Raw(Field(a, "content")),
               status |-> Field(a, "status"),
               excerpt |-> SpreadIf(Field(a, "excerpt"), Raw(Field(a, "excerpt"))),
               categories |-> OrElse(Field(a, "categories"), Arr(<<>>)),
               tags |-> OrElse(Field(a, "tags"), Arr(<<>>))]),
          Undef)

\* createPost (380-389)
createPost(a) ==
  Request("post", "/posts",
          Obj([title |-> Raw(Field(a, "title")),
               content |-> Raw(Field(a, "content")),
               status |-> Field(a, "status"),
               excerpt |-> SpreadIf(Field(a, "excerpt"), Raw(Field(a, "excerpt"))),
               categories |-> SpreadIf(Field(a, "categories"), Field(a, "categories")),
               tags |-> SpreadIf(Field(a, "tags"), Field(a, "tags"))]),
          Undef)

\* An update that assigns every field, supplied or not
updateFieldAlways(x, value) == value

\* if (args.excerpt) updateData.excerpt = ...: a supplied but falsy value
\* (the empty string) sets no key
updateField(x, value) == IF Truthy(x) THEN value ELSE Undef

\* updatePost (407-419)
updatePost(a) ==
  Request("post", "/posts/" \o ToString(Field(a, "id").v),
          Obj([title |-> updateField(Field(a, "title"), Raw(Field(a, "title"))),
               content |-> updateField(Field(a, "content"), Raw(Field(a, "content"))),
               status |-> updateField(Field(a, "status"), Field(a, "status")),
               excerpt |-> updateField(Field(a, "excerpt"), Raw(Field(a, "excerpt"))),
               categories |-> updateField(Field(a, "categories"), Field(a, "categories")),
               tags |-> updateField(Field(a, "tags"), Field(a, "tags"))]),
          Undef)

\* deletePost (433-435)
deletePost(a) ==
  Request("delete", "/posts/" \o ToString(Field(a, "id").v), Undef,
          Obj([force |-> Field(a, "force")]))

\* listPosts asking for the edit context whatever include_content says, and
\* sending search and author even when the caller gave none
listPostsAlwaysEdit(a) ==
  Request("get", "/posts", Undef,
          Obj([per_page |-> Field(a, "per_page"),
               page |-> Field(a, "page"),
               status |-> Field(a, "status"),
               order |-> Field(a, "order"),
               orderby |-> Field(a, "orderby"),
               search |-> OrElse(Field(a, "search"), Str("")),
               author |-> SpreadIf(Field(a, "author"), Field(a, "author")),
               categories |-> IF Truthy(Field(a, "categories"))
                              THEN Str(JoinNumbers(Field(a, "categories").v, ","))
                              ELSE Undef,
               tags |-> IF Truthy(Field(a, "tags"))
                        THEN Str(JoinNumbers(Field(a, "tags").v, ","))
                        ELSE Undef,
               context |-> Str("edit")]))

\* listPosts (449-463)
listPosts(a) ==
  Request("get", "/posts", Undef,
          Obj([per_page |-> Field(a, "per_page"),
               page |-> Field(a, "page"),
               status |-> Field(a, "status"),
               order |-> Field(a, "order"),
               orderby |-> Field(a, "orderby"),
               search |-> SpreadIf(Field(a, "search"), Field(a, "search")),
               author |-> SpreadIf(Field(a, "author"), Field(a, "author")),
               categories |-> IF Truthy(Field(a, "categories"))
                              THEN Str(JoinNumbers(Field(a, "categories").v, ","))
                              ELSE Undef,
               tags |-> IF Truthy(Field(a, "tags"))
                        THEN Str(JoinNumbers(Field(a, "tags").v, ","))
                        ELSE Undef,
               context |-> SpreadIf(Field(a, "include_content"), Str("edit"))]))

\* getPost (477-479)
getPost(a) ==
  Request("get", "/posts/" \o ToString(Field(a, "id").v), Undef,
          Obj([context |-> Field(a, "context")]))

\* getCategories (491-499)
getCategories(a) ==
  Request("get", "/categories", Undef,
          Obj([per_page |-> OrElse(Field(a, "per_page"), Num(100)),
               page |-> OrElse(Field(a, "page"), Num(1)),
               orderby |-> Str("name"),
               order |-> Str("asc")]))

\* getTags (511-519)
getTags(a) ==
  Request("get", "/tags", Undef,
          Obj([per_page |-> OrElse(Field(a, "per_page"), Num(100)),
               page |-> OrElse(Field(a, "page"), Num(1)),
               orderby |-> Str("name"),
               order |-> Str("asc")]))

\* An error of the HTTP library: response is Undef when no response came
\* (network failure, timeout), else Obj([status, data]).
AxiosError(message, code, response) ==
  [name |-> "AxiosError", message |-> message, code |-> code, response |-> response]

HttpResponse(status, data) == Obj([status |-> Num(status), data |-> data])

\* handleApiError with the body's own code and message taken first, whatever
\* the status
handleApiErrorBodyFirst(error) ==
  IF ~Truthy(error.response)
  THEN WordPressError("Network error: " \o error.message, "NETWORK_ERROR", Undef)
  ELSE
    LET status == Field(error.response, "status").v
        wpError == Field(error.response, "data")
    IN IF Truthy(Field(wpError, "code"))
       THEN WordPressError(Field(wpError, "message").v, Field(wpError, "code").v, Num(status))
       ELSE CASE status = 401 ->
                   WordPressError("Invalid credentials. Check your username and application password.",
                                  "AUTHENTICATION_ERROR", Num(401))
              [] status = 403 ->
                   WordPressError("Insufficient permissions. Check user role and capabilities.",
                                  "PERMISSION_ERROR", Num(403))
              [] status = 404 ->
                   WordPressError("WordPress API endpoint not found. Check if REST API is enabled.",
                                  "NOT_FOUND_ERROR", Num(404))
              [] status = 429 ->
                   WordPressError("Rate limit exceeded. Please wait before making more requests.",
                                  "RATE_LIMIT_ERROR", Num(429))
              [] OTHER ->
                   WordPressError("WordPress API error (" \o ToString(status) \o ")",
                                  "API_ERROR", Num(status))

\* handleApiError whose default branch ignores the body's code
handleApiErrorGenericCode(error) ==
  IF ~Truthy(error.response)
  THEN WordPressError("Network error: " \o error.message, "NETWORK_ERROR", Undef)
  ELSE
    LET status == Field(error.response, "status").v
        wpError == Field(error.response, "data")
    IN CASE status = 401 ->
              WordPressError("Invalid credentials. Check your username and application password.",
                             "AUTHENTICATION_ERROR", Num(401))
         [] status = 403 ->
              WordPressError("Insufficient permissions. Check user role and capabilities.",
                             "PERMISSION_ERROR", Num(403))
         [] status = 404 ->
              WordPressError("WordPress API endpoint not found. Check if REST API is enabled.",
                             "NOT_FOUND_ERROR", Num(404))
         [] status = 429 ->
              WordPressError("Rate limit exceeded. Please wait before making more requests.",
                             "RATE_LIMIT_ERROR", Num(429))
         [] OTHER ->
              WordPressError(
                OrElse(Field(wpError, "message"),
                       Str("WordPress API error (" \o ToString(status) \o ")")).v,
                "API_ERROR",
                Num(status))

\* handleApiError (295-354): the WordPressError thrown for a failed request
handleApiError(error) ==
  IF ~Truthy(error.response)
  THEN WordPressError("Network error: " \o error.message, "NETWORK_ERROR", Undef)
  ELSE
    LET status == Field(error.response, "status").v
        wpError == Field(error.response, "data")
    IN CASE status = 401 ->
              WordPressError("Invalid credentials. Check your username and application password.",
                             "AUTHENTICATION_ERROR", Num(401))
         [] status = 403 ->
              WordPressError("Insufficient permissions. Check user role and capabilities.",
                             "PERMISSION_ERROR", Num(403))
         [] status = 404 ->
              WordPressError("WordPress API endpoint not found. Check if REST API is enabled.",
                             "NOT_FOUND_ERROR", Num(404))
         [] status = 429 ->
              WordPressError("Rate limit exceeded. Please wait before making more requests.",
                             "RATE_LIMIT_ERROR", Num(429))
         [] OTHER ->
              WordPressError(
                OrElse(Field(wpError, "message"),
                       Str("WordPress API error (" \o ToString(status) \o ")")).v,
                OrElse(Field(wpError, "code"), Str("API_ERROR")).v,
                Num(status))

\* The error as an HTTP request threw it: with the configuration of the
\* request, which holds the credentials
InFlight(error, requestConfig) ==
  [name |-> error.name, message |-> error.message, code |-> error.code,
   response |-> error.response, config |-> requestConfig]

\* handleApiError logging its failures at the debug level
handleApiErrorLogAtDebug(error) ==
  IF ~Truthy(error.response)
  THEN LogEntryWith("debug", "WordPress API network error", <<error.message, error.code>>)
  ELSE LogEntryWith("debug", "WordPress API error",
                    <<TextOf(Field(error.response, "status")),
                      TextOf(Field(Field(error.response, "data"), "code")),
                      TextOf(Field(Field(error.response, "data"), "message")),
                      error.config.url, error.config.method>>)

\* handleApiError's log entry (300-303, 313-319): of the request's
\* configuration it logs the url and the method
handleApiErrorLog(error) ==
  IF ~Truthy(error.response)
  THEN LogEntryWith("error", "WordPress API network error", <<error.message, error.code>>)
  ELSE LogEntryWith("error", "WordPress API error",
                    <<TextOf(Field(error.response, "status")),
                      TextOf(Field(Field(error.response, "data"), "code")),
                      TextOf(Field(Field(error.response, "data"), "message")),
                      error.config.url, error.config.method>>)

(***************************************************************************)
(* The tool handlers of WordPressMcpServer (index.ts 345-638)              *)
(***************************************************************************)
SchemaTools ==
  {"create_wordpress_post", "update_wordpress_post", "delete_wordpress_post",
   "list_wordpress_posts", "get_wordpress_post", "get_wordpress_categories",
   "get_wordpress_tags"}

\* The case labels of the call handler's switch (351-374)
KnownTools == SchemaTools \cup {"test_wordpress_connection"}

\* The schema each handler parses its arguments with
SchemaOf(tool) ==
  CASE tool = "create_wordpress_post" -> CreatePostArgsSchema
    [] tool = "update_wordpress_post" -> UpdatePostArgsSchema
    [] tool = "delete_wordpress_post" -> DeletePostArgsSchema
    [] tool = "list_wordpress_posts" -> ListPostsArgsSchema
    [] tool = "get_wordpress_post" -> GetPostArgsSchema
    [] tool = "get_wordpress_categories" -> GetCategoriesArgsSchema
    [] tool = "get_wordpress_tags" -> GetTagsArgsSchema

\* The request the client operation a handler calls sends
ClientRequest(tool, a) ==
  CASE tool = "create_wordpress_post" -> createPost(a)
    [] tool = "update_wordpress_post" -> updatePost(a)
    [] tool = "delete_wordpress_post" -> deletePost(a)
    [] tool = "list_wordpress_posts" -> listPosts(a)
    [] tool = "get_wordpress_post" -> getPost(a)
    [] tool = "get_wordpress_categories" -> getCategories(a)
    [] tool = "get_wordpress_tags" -> getTags(a)

\* The client operations that read a property of response.data before they
\* return it (392, 465, 481, 501, 521): a null body makes them throw.
ReadsResponseData ==
  {"create_wordpress_post", "list_wordpress_posts", "get_wordpress_post",
   "get_wordpress_categories", "get_wordpress_tags"}

\* The error entry each client operation's catch block logs
ClientFailureLog(tool) ==
  CASE tool = "create_wordpress_post" -> LogEntry("error", "Failed to create post")
    [] tool = "update_wordpress_post" -> LogEntry("error", "Failed to update post")
    [] tool = "delete_wordpress_post" -> LogEntry("error", "Failed to delete post")
    [] tool = "list_wordpress_posts" -> LogEntry("error", "Failed to fetch posts")
    [] tool = "get_wordpress_post" -> LogEntry("error", "Failed to fetch post")
    [] tool = "get_wordpress_categories" -> LogEntry("error", "Failed to fetch categories")
    [] tool = "get_wordpress_tags" -> LogEntry("error", "Failed to fetch tags")
    [] tool = "test_wordpress_connection" ->
         LogEntry("error", "WordPress API connection failed")

\* The entry each client operation logs once its request has succeeded
ClientSuccessLog(tool) ==
  CASE tool = "create_wordpress_post" -> LogEntry("info", "Post created successfully")
    [] tool = "update_wordpress_post" -> LogEntry("info", "Post updated successfully")
    [] tool = "delete_wordpress_post" -> LogEntry("info", "Post deleted successfully")
    [] tool = "list_wordpress_posts" -> LogEntry("debug", "Fetched posts")
    [] tool = "get_wordpress_post" -> LogEntry("debug", "Fetched post")
    [] tool = "get_wordpress_categories" -> LogEntry("debug", "Fetched categories")
    [] tool = "get_wordpress_tags" -> LogEntry("debug", "Fetched tags")
    [] tool = "test_wordpress_connection" ->
         LogEntry("info", "WordPress API connection successful")

\* A catch that reports every failure as unknown
testConnectionCatchGeneric(error) ==
  Obj([success |-> Bool(FALSE), message |-> Str("Unknown connection error")])

\* testConnection's catch (366-373): the pair it returns for a thrown value
testConnectionCatch(error) ==
  Obj([success |-> Bool(FALSE),
       message |-> IF error.name = "WordPressError" THEN Str(error.message)
                   ELSE Str("Unknown connection error")])

\* testConnection's return after the read succeeded (365)
testConnectionOk ==
  Obj([success |-> Bool(TRUE), message |-> Str("Connection successful")])

TextResponse(text) == [content |-> <<[type |-> "text", text |-> text]>>]

ErrorResponse(text) ==
  [content |-> <<[type |-> "text", text |-> text]>>, isError |-> TRUE]

Nullish(x) == x.t = "undefined"

\* post.title?.rendered || 'Untitled'
RenderedTitle(post) ==
  OrElse(Field(Field(post, "title"), "rendered"), Str("Untitled"))

\* (388-400)
handleCreatePost(a, post) ==
  IF Nullish(post) THEN Throw(TypeError("Cannot read properties of undefined"))
  ELSE Return(TextResponse(
         [kind |-> "created", id |-> Field(post, "id"), title |-> RenderedTitle(post),
          status |-> Field(post, "status"),
          url |-> OrElse(Field(post, "link"), Str("N/A"))]))

\* (402-414)
handleUpdatePost(a, post) ==
  IF Nullish(post) THEN Throw(TypeError("Cannot read properties of undefined"))
  ELSE Return(TextResponse(
         [kind |-> "updated", id |-> Field(post, "id"), title |-> RenderedTitle(post),
          status |-> Field(post, "status"),
          url |-> OrElse(Field(post, "link"), Str("N/A")),
          modified |-> OrElse(Field(post, "modified"), Str("N/A"))]))

\* (416-429): result.previous.id throws when the body has no `previous`
handleDeletePost(a, result) ==
  IF Nullish(result) \/ Nullish(Field(result, "previous"))
  THEN Throw(TypeError("Cannot read properties of undefined"))
  ELSE Return(TextResponse(
         [kind |-> "deleted",
          action |-> IF Truthy(Field(a, "force")) THEN "permanently deleted"
                     ELSE "moved to trash",
          id |-> Field(Field(result, "previous"), "id"),
          title |-> RenderedTitle(Field(result, "previous")),
          deleted |-> Field(result, "deleted")]))

\* A pagination text that is always there
PaginationInfoAlways(a, defaultPerPage) ==
  "Page " \o ToString(OrElse(Field(a, "page"), Num(1)).v) \o ", "
  \o ToString(OrElse(Field(a, "per_page"), Num(defaultPerPage)).v) \o " per page"

\* validatedArgs.page || validatedArgs.per_page ? ` (Page ..., ... per page)` : ''
PaginationInfo(a, defaultPerPage) ==
  IF Truthy(OrElse(Field(a, "page"), Field(a, "per_page")))
  THEN "Page " \o ToString(OrElse(Field(a, "page"), Num(1)).v) \o ", "
       \o ToString(OrElse(Field(a, "per_page"), Num(defaultPerPage)).v) \o " per page"
  ELSE ""

\* The second line of a listed post (451-454): the first 150 characters of
\* the rendered content, and '...' when those are 150 characters
ContentPreview(a, post) ==
  LET rendered == Field(Field(post, "content"), "rendered")
  IN IF Truthy(Field(a, "include_content")) /\ Truthy(rendered)
     THEN LET content == Substring0(rendered.v, 150)
          IN Str(content \o (IF Len(content) >= 150 THEN "..." ELSE ""))
     ELSE Undef

\* One post of the list (447-457)
ListItem(a, post) ==
  [id |-> Field(post, "id"),
   title |-> OrElse(Field(Field(post, "title"), "rendered"),
                    OrElse(Field(Field(post, "title"), "raw"), Str("Untitled"))),
   status |-> Field(post, "status"),
   preview |-> ContentPreview(a, post)]

\* handleListPosts treating an empty result as a failure
handleListPostsEmptyIsError(a, posts) ==
  IF posts.t # "array" THEN Throw(TypeError("posts.map is not a function"))
  ELSE IF Len(posts.v) = 0
  THEN Return(ErrorResponse(
         [kind |-> "no_posts",
          message |-> "No WordPress posts found matching the criteria."]))
  ELSE Return(TextResponse(
         [kind |-> "posts", count |-> Len(posts.v),
          pagination |-> PaginationInfo(a, 10),
          items |-> [i \in 1..Len(posts.v) |-> ListItem(a, posts.v[i])]]))

\* (431-473)
handleListPosts(a, posts) ==
  IF posts.t # "array" THEN Throw(TypeError("posts.map is not a function"))
  ELSE IF Len(posts.v) = 0
  THEN Return(TextResponse(
         [kind |-> "no_posts",
          message |-> "No WordPress posts found matching the criteria."]))
  ELSE Return(TextResponse(
         [kind |-> "posts", count |-> Len(posts.v),
          pagination |-> PaginationInfo(a, 10),
          items |-> [i \in 1..Len(posts.v) |-> ListItem(a, posts.v[i])]]))

\* (488-506)
handleGetPost(a, post) ==
  IF Nullish(post) THEN Throw(TypeError("Cannot read properties of undefined"))
  ELSE Return(TextResponse(
         [kind |-> "post", id |-> Field(post, "id"),
          title |-> OrElse(Field(Field(post, "title"), "rendered"),
                           OrElse(Field(Field(post, "title"), "raw"), Str("Untitled"))),
          status |-> Field(post, "status"),
          url |-> OrElse(Field(post, "link"), Str("N/A")),
          content |-> OrElse(Field(Field(post, "content"), "raw"),
                             OrElse(Field(Field(post, "content"), "rendered"),
                                    Str("No content available")))]))

\* handleGetCategories/handleGetTags with one message for every empty page
handleGetTermsIgnoresPage(what, a, terms) ==
  IF terms.t # "array" THEN Throw(TypeError("terms.map is not a function"))
  ELSE IF Len(terms.v) = 0
  THEN Return(TextResponse(
         [kind |-> "no_" \o what,
          message |-> "No WordPress " \o what \o " found."]))
  ELSE Return(TextResponse(
         [kind |-> what, count |-> Len(terms.v),
          pagination |-> PaginationInfo(a, 100),
          items |-> [i \in 1..Len(terms.v) |->
                      [id |-> Field(terms.v[i], "id"),
                       name |-> Field(terms.v[i], "name"),
                       slug |-> Field(terms.v[i], "slug"),
                       count |-> OrElse(Field(terms.v[i], "count"), Num(0))]]]))

\* handleGetCategories (508-544) and handleGetTags (546-582), which differ
\* only in the word `what`
handleGetTerms(what, a, terms) ==
  IF terms.t # "array" THEN Throw(TypeError("terms.map is not a function"))
  ELSE IF Len(terms.v) = 0
  THEN LET pageNum == OrElse(Field(a, "page"), Num(1)).v
       IN Return(TextResponse(
            IF pageNum > 1
            THEN [kind |-> "no_" \o what,
                  message |-> "No WordPress " \o what \o " found on page "
                              \o ToString(pageNum) \o ". Try a lower page number."]
            ELSE [kind |-> "no_" \o what,
                  message |-> "No WordPress " \o what \o " found."]))
  ELSE Return(TextResponse(
         [kind |-> what, count |-> Len(terms.v),
          pagination |-> PaginationInfo(a, 100),
          items |-> [i \in 1..Len(terms.v) |->
                      [id |-> Field(terms.v[i], "id"),
                       name |-> Field(terms.v[i], "name"),
                       slug |-> Field(terms.v[i], "slug"),
                       count |-> OrElse(Field(terms.v[i], "count"), Num(0))]]]))

\* handleTestConnection showing the credentials it tested with
handleTestConnectionShowsSecret(cfg, result) ==
  Return(TextResponse(
    [kind |-> "connection_test",
     banner |-> IF Truthy(Field(result, "success")) THEN "PASSED" ELSE "FAILED",
     message |-> Field(result, "message"),
     url |-> cfg.WORDPRESS_URL,
     username |-> cfg.WORDPRESS_USERNAME \o ":" \o cfg.WORDPRESS_APP_PASSWORD]))

\* handleTestConnection (475-486)
handleTestConnection(cfg, result) ==
  Return(TextResponse(
    [kind |-> "connection_test",
     banner |-> IF Truthy(Field(result, "success")) THEN "PASSED" ELSE "FAILED",
     message |-> Field(result, "message"),
     url |-> cfg.WORDPRESS_URL,
     username |-> cfg.WORDPRESS_USERNAME]))

\* What a handler does with the value its client operation returned
FormatResult(cfg, tool, a, result) ==
  CASE tool = "create_wordpress_post" -> handleCreatePost(a, result)
    [] tool = "update_wordpress_post" -> handleUpdatePost(a, result)
    [] tool = "delete_wordpress_post" -> handleDeletePost(a, result)
    [] tool = "list_wordpress_posts" -> handleListPosts(a, result)
    [] tool = "get_wordpress_post" -> handleGetPost(a, result)
    [] tool = "get_wordpress_categories" -> handleGetTerms("categories", a, result)
    [] tool = "get_wordpress_tags" -> handleGetTerms("tags", a, result)
    [] tool = "test_wordpress_connection" -> handleTestConnection(cfg, result)

\* issue.path.join('.') + ': ' + issue.message, for every issue
RECURSIVE IssueTexts(_)
IssueTexts(issues) ==
  IF issues = <<>> THEN <<>>
  ELSE <<Join(issues[1].path, ".") \o ": " \o issues[1].message>>
       \o IssueTexts(Tail(issues))

\* handleToolError that rethrows what it does not recognise
handleToolErrorRethrows(error, toolName, a) ==
  CASE error.name = "ZodError" ->
         Return(ErrorResponse([kind |-> "Validation Error",
                               message |-> Join(IssueTexts(error.issues), ", ")]))
    [] error.name = "WordPressError" ->
         Return(ErrorResponse([kind |-> "WordPress Error", code |-> error.code,
                               message |-> error.message]))
    [] error.name = "ValidationError" ->
         Return(ErrorResponse([kind |-> "Validation Error", message |-> error.message]))
    [] OTHER -> Throw(error)

\* handleToolError whose WordPressError branch forgets isError
handleToolErrorUnflagged(error, toolName, a) ==
  CASE error.name = "ZodError" ->
         Return(ErrorResponse([kind |-> "Validation Error",
                               message |-> Join(IssueTexts(error.issues), ", ")]))
    [] error.name = "WordPressError" ->
         Return(TextResponse([kind |-> "WordPress Error", code |-> error.code,
                              message |-> error.message]))
    [] error.name = "ValidationError" ->
         Return(ErrorResponse([kind |-> "Validation Error", message |-> error.message]))
    [] OTHER ->
         Return(ErrorResponse([kind |-> "Error executing", tool |-> toolName,
                               message |-> error.message]))

\* handleToolError (584-638): always returns a response
handleToolError(error, toolName, a) ==
  CASE error.name = "ZodError" ->
         Return(ErrorResponse([kind |-> "Validation Error",
                               message |-> Join(IssueTexts(error.issues), ", ")]))
    [] error.name = "WordPressError" ->
         Return(ErrorResponse([kind |-> "WordPress Error", code |-> error.code,
                               message |-> error.message]))
    [] error.name = "ValidationError" ->
         Return(ErrorResponse([kind |-> "Validation Error", message |-> error.message]))
    [] OTHER ->
         Return(ErrorResponse([kind |-> "Error executing", tool |-> toolName,
                               message |-> error.message]))

(***************************************************************************)
(* Startup: loadConfig (index.ts 58-81), ConfigSchema (logger.ts 53-61)    *)
(* and the WordPressApiClient constructor (logger.ts 248-293)              *)
(***************************************************************************)
\* z.string().url(): new URL(s) succeeds, which asks for a scheme
IsUrl(s) == \E i \in 2..(Len(s) - 2) : SubSeq(s, i, i + 2) = "://"

\* rawConfig of loadConfig (60-69)
RawConfig(e) ==
  [WORDPRESS_URL |-> e.WORDPRESS_URL,
   WORDPRESS_USERNAME |-> e.WORDPRESS_USERNAME,
   WORDPRESS_APP_PASSWORD |-> e.WORDPRESS_APP_PASSWORD,
   MCP_SERVER_NAME |-> OrElse(e.MCP_SERVER_NAME, Str("wordpress-mcp")),
   MCP_SERVER_VERSION |-> OrElse(e.MCP_SERVER_VERSION, Str("1.0.0")),
   LOG_LEVEL |-> OrElse(e.LOG_LEVEL, Str("info")),
   REQUEST_TIMEOUT |-> IF Truthy(e.REQUEST_TIMEOUT) THEN parseInt(e.REQUEST_TIMEOUT.v)
                       ELSE Num(30000)]

\* A required string field of ConfigSchema
RequiredString(key, x, emptyMsg) ==
  IF x = Undef THEN <<Issue(<<key>>, "Required")>>
  ELSE IF x.v = "" THEN <<Issue(<<key>>, emptyMsg)>>
  ELSE <<>>

\* The issues ConfigSchema raises on a raw configuration, in the order of
\* its fields: min(1000) and max(60000) reject, none of them adjusts
ConfigIssues(raw) ==
  (IF raw.WORDPRESS_URL = Undef THEN <<Issue(<<"WORDPRESS_URL">>, "Required")>>
   ELSE IF ~IsUrl(raw.WORDPRESS_URL.v)
   THEN <<Issue(<<"WORDPRESS_URL">>, "WordPress URL must be a valid URL")>>
   ELSE <<>>)
  \o RequiredString("WORDPRESS_USERNAME", raw.WORDPRESS_USERNAME,
                    "WordPress username is required")
  \o RequiredString("WORDPRESS_APP_PASSWORD", raw.WORDPRESS_APP_PASSWORD,
                    "WordPress application password is required")
  \o (IF raw.LOG_LEVEL.v \in {"error", "warn", "info", "debug"} THEN <<>>
      ELSE <<Issue(<<"LOG_LEVEL">>, "Invalid enum value")>>)
  \o (IF raw.REQUEST_TIMEOUT = NaN
      THEN <<Issue(<<"REQUEST_TIMEOUT">>, "Expected number, received nan")>>
      ELSE IF raw.REQUEST_TIMEOUT.v < 1000
      THEN <<Issue(<<"REQUEST_TIMEOUT">>, "Number must be greater than or equal to 1000")>>
      ELSE IF raw.REQUEST_TIMEOUT.v > 60000
      THEN <<Issue(<<"REQUEST_TIMEOUT">>, "Number must be less than or equal to 60000")>>
      ELSE <<>>)

\* loadConfig with a timeout forced into [1000, 60000]
loadConfigClamping(e) ==
  LET raw == RawConfig(e)
      t == raw.REQUEST_TIMEOUT
      clamped == [raw EXCEPT !.REQUEST_TIMEOUT =
                    IF t = NaN THEN t
                    ELSE IF t.v < 1000 THEN Num(1000)
                    ELSE IF t.v > 60000 THEN Num(60000) ELSE t]
      issues == ConfigIssues(clamped)
  IN IF issues # <<>>
     THEN Throw([name |-> "Error",
                 message |-> "Configuration validation failed: "
                             \o Join(IssueTexts(issues), ", ")])
     ELSE Return([k \in DOMAIN clamped |-> clamped[k].v])

\* loadConfig (58-81): the configuration, or the Error the constructor
\* throws
loadConfig(e) ==
  LET raw == RawConfig(e)
      issues == ConfigIssues(raw)
  IN IF issues # <<>>
     THEN Throw([name |-> "Error",
                 message |-> "Configuration validation failed: "
                             \o Join(IssueTexts(issues), ", ")])
     ELSE Return([k \in DOMAIN raw |-> raw[k].v])

\* normalizeUrl that appends the API path to the URL as configured
normalizeUrlAsIs(url) == url \o "/wp-json/wp/v2"

\* normalizeUrl (289-293): url.replace(/\/$/, '') + '/wp-json/wp/v2'
normalizeUrl(url) ==
  LET cleanUrl == IF EndsWith(url, "/") THEN SubSeq(url, 1, Len(url) - 1) ELSE url
  IN cleanUrl \o "/wp-json/wp/v2"

\* axios.create({...}) of the client's constructor (252-266)
AxiosCreate(cfg) ==
  [baseURL |-> normalizeUrl(cfg.WORDPRESS_URL),
   timeout |-> cfg.REQUEST_TIMEOUT,
   userAgent |-> cfg.MCP_SERVER_NAME \o "/" \o cfg.MCP_SERVER_VERSION,
   auth |-> [username |-> cfg.WORDPRESS_USERNAME,
             password |-> cfg.WORDPRESS_APP_PASSWORD]]

(***************************************************************************)
(* The inputs: tool names, argument payloads, the remote service's answers *)
(***************************************************************************)
\* Post ids range over 0..MaxId, page numbers over 0..MaxPage.
MaxId == 1
MaxPage == 2

Chars16 == "0123456789abcdef"
Chars256 ==
  Chars16 \o Chars16 \o Chars16 \o Chars16 \o Chars16 \o Chars16 \o Chars16 \o Chars16
  \o Chars16 \o Chars16 \o Chars16 \o Chars16 \o Chars16 \o Chars16 \o Chars16 \o Chars16

Ids == {Undef} \cup {Num(n) : n \in 0..MaxId}
ValidIds == {Num(n) : n \in 1..MaxId}
Pages == {Undef} \cup {Num(n) : n \in 0..MaxPage}

CreateArgs ==
  {Obj([title |-> t, content |-> c, status |-> s, excerpt |-> e,
        categories |-> cs, tags |-> ts]) :
     t \in {Undef, Str("Hello World"), Str(""), Str(Chars256)},
     c \in {Str("Body"), Str("")},
     s \in {Undef, Str("publish"), Str("pending")},
     e \in {Undef, Str(""), Str("Summary")},
     cs \in {Undef, Arr(<<Num(1), Num(2)>>), Arr(<<Num(1), Str("x")>>)},
     ts \in {Undef, Arr(<<>>)}}
  \cup {Obj([title |-> Num(5)]),
        Obj([title |-> Str("Hello World"), content |-> Str("Body"), extra |-> Str("x")])}

UpdateArgs ==
  {Obj([id |-> i, title |-> t, content |-> c, status |-> s, excerpt |-> e,
        categories |-> cs, tags |-> ts]) :
     i \in ValidIds,
     t \in {Undef, Str("New title")},
     c \in {Undef, Str("Body")},
     s \in {Undef, Str("draft")},
     e \in {Undef, Str(""), Str("Summary")},
     cs \in {Undef, Arr(<<>>), Arr(<<Num(1), Num(2)>>)},
     ts \in {Undef, Arr(<<>>)}}
  \cup {Obj([id |-> i, title |-> t, status |-> s]) :
          i \in Ids, t \in {Undef, Str("")}, s \in {Undef, Str("pending")}}
  \cup {Obj([id |-> Num(1), status |-> Str("draft"), extra |-> Str("x")])}

DeleteArgs ==
  {Obj([id |-> i, force |-> f]) :
     i \in Ids \cup {Str("5")},
     f \in {Undef, Bool(TRUE), Bool(FALSE), Str("yes")}}
  \cup {Obj([id |-> Num(5), force |-> Bool(TRUE)])}

ListArgs ==
  {Obj([per_page |-> pp, page |-> p, status |-> s]) :
     pp \in {Undef, Num(5), Num(101)}, p \in Pages, s \in {Undef, Str("bogus")}}
  \cup {Obj([search |-> q, author |-> au, categories |-> cs, include_content |-> ic]) :
          q \in {Undef, Str(""), Str("q")},
          au \in {Undef, Num(0), Num(7)},
          cs \in {Undef, Arr(<<Num(1), Num(2)>>)},
          ic \in {Undef, Bool(TRUE)}}
  \cup {Obj([page |-> Num(1), extra |-> Str("x")])}

GetArgs ==
  {Obj([id |-> i, context |-> c]) :
     i \in Ids, c \in {Undef, Str("view"), Str("bogus")}}

TermArgs ==
  {Obj([per_page |-> pp, page |-> p, extra |-> x]) :
     pp \in {Undef, Num(5), Num(101)}, p \in Pages, x \in {Undef, Str("x")}}

\* A name the call handler's switch has no case for
UnknownTool == "publish_wordpress_page"

ToolNames == KnownTools \cup {UnknownTool}

\* request.params.arguments: absent altogether (Undef) or an object
ArgsFor(tool) ==
  {Undef} \cup
  CASE tool = "create_wordpress_post" -> CreateArgs
    [] tool = "update_wordpress_post" -> UpdateArgs
    [] tool = "delete_wordpress_post" -> DeleteArgs
    [] tool = "list_wordpress_posts" -> ListArgs
    [] tool = "get_wordpress_post" -> GetArgs
    [] tool = "get_wordpress_categories" -> TermArgs
    [] tool = "get_wordpress_tags" -> TermArgs
    [] OTHER -> {}

APost ==
  Obj([id |-> Num(1), title |-> Obj([rendered |-> Str("Hello World")]),
       status |-> Str("draft"), link |-> Str("https://x.com/?p=1")])

\* A post whose rendered content has n characters
PostWithContent(n) ==
  Obj([id |-> Num(n), title |-> Obj([rendered |-> Str("Long read")]),
       status |-> Str("publish"),
       content |-> Obj([rendered |-> Str(Substring0(Chars256, n))])])

ATerm ==
  Obj([id |-> Num(4), name |-> Str("News"), slug |-> Str("news"), count |-> Num(0)])

\* The bodies of a 2xx answer: well-formed ones, a trashed post in place of
\* {deleted, previous}, and a null body.
RemoteData(tool) ==
  CASE tool \in {"create_wordpress_post", "update_wordpress_post", "get_wordpress_post"} ->
         {APost, Undef}
    [] tool = "delete_wordpress_post" ->
         {Obj([deleted |-> Bool(TRUE), previous |-> APost]), APost, Undef}
    [] tool = "list_wordpress_posts" ->
         {Arr(<<>>), Arr(<<APost>>), Undef,
          Arr(<<PostWithContent(149), PostWithContent(150), PostWithContent(151)>>)}
    [] tool \in {"get_wordpress_categories", "get_wordpress_tags"} ->
         {Arr(<<>>), Arr(<<ATerm>>), Undef}
    [] OTHER -> {Arr(<<APost>>)}

FailStatuses == {400, 401, 403, 404, 429, 500}

\* The bodies of a failed answer: none, one with its own code and message,
\* one whose code and message are empty strings.
ErrorBodies ==
  {Undef,
   Obj([code |-> Str("rest_invalid_param"), message |-> Str("Invalid parameter(s): status")]),
   Obj([code |-> Str(""), message |-> Str("")])}

\* The failures of a request: a response with a non-2xx status, or none
\* (the timeout fired, the connection failed).
RemoteFailures(cfg) ==
  {AxiosError("Request failed with status code " \o ToString(st), "ERR_BAD_RESPONSE",
              HttpResponse(st, b)) : st \in FailStatuses, b \in ErrorBodies}
  \cup {AxiosError("timeout of " \o ToString(cfg.REQUEST_TIMEOUT) \o "ms exceeded",
                   "ECONNABORTED", Undef),
        AxiosError("connect ECONNREFUSED", "ECONNREFUSED", Undef)}

\* The configurations a started server can hold (ConfigSchema, logger.ts 53-61)
Configs ==
  {[WORDPRESS_URL |-> "https://x.com", WORDPRESS_USERNAME |-> "admin",
    WORDPRESS_APP_PASSWORD |-> "abcd efgh", LOG_LEVEL |-> lvl,
    REQUEST_TIMEOUT |-> 30000, MCP_SERVER_NAME |-> "wordpress-mcp",
    MCP_SERVER_VERSION |-> "1.0.0"] : lvl \in {"error", "debug"}}

\* process.env: the environments a server can be started in
Envs ==
  {[WORDPRESS_URL |-> u, WORDPRESS_USERNAME |-> Str("admin"),
    WORDPRESS_APP_PASSWORD |-> p, MCP_SERVER_NAME |-> Undef,
    MCP_SERVER_VERSION |-> Undef, LOG_LEVEL |-> lvl, REQUEST_TIMEOUT |-> t] :
     u \in {Undef, Str("https://x.com"), Str("https://x.com/"),
            Str("https://x.com/blog"), Str("https://x.com/blog/"), Str("x.com")},
     p \in {Undef, Str(""), Str("abcd efgh"), Str("wxyz 1234")},
     lvl \in {Undef, Str("error"), Str("debug"), Str("verbose")},
     t \in {Undef, Str(""), Str("0"), Str("999"), Str("1000"), Str("2500ms"),
            Str("60000"), Str("60001"), Str("-5"), Str("soon")}}

\* The environments of the servers whose invocations are followed
RunEnvs ==
  {e \in Envs : /\ e.WORDPRESS_URL = Str("https://x.com")
                /\ e.WORDPRESS_APP_PASSWORD = Str("abcd efgh")
                /\ e.LOG_LEVEL \in {Str("error"), Str("debug")}
                /\ e.REQUEST_TIMEOUT = Undef}

(***************************************************************************)
(* State                                                                   *)
(***************************************************************************)
VARIABLES
  config,         \* this.config, set by the constructor
  pc,             \* where the invocation being served stands
  name,           \* request.params.name
  args,           \* request.params.arguments
  validatedArgs,  \* the handler's validatedArgs, Undef before validation
  requests,       \* the HTTP requests this invocation has sent, in order
  outcome,        \* how the awaited request settled, and the error it settled with
  result,         \* the value the client operation returned to the handler
  thrown,         \* the error in flight towards the call handler's catch
  responses,      \* the responses returned to the protocol layer
  escaped,        \* the error thrown out of the call handler, if any
  log,            \* the log entries this invocation has written
  env,            \* process.env at startup
  client,         \* the defaults of the client's axios instance
  remembered      \* history: what validation made of an earlier invocation

vars ==
  <<config, pc, name, args, validatedArgs, requests, outcome, result, thrown,
    responses, escaped, log, env, client, remembered>>

Pending == [state |-> "pending", error |-> NoError]

\* No earlier invocation is remembered
NoMemory == [name |-> "", args |-> Undef, outcome |-> Return(Undef)]

Init ==
  /\ env \in RunEnvs
  /\ config \in Configs
  /\ loadConfig(env) = Return(config)
  /\ client = AxiosCreate(config)
  /\ pc = "idle"
  /\ name = ""
  /\ args = Undef
  /\ validatedArgs = Undef
  /\ requests = <<>>
  /\ outcome = Pending
  /\ result = Undef
  /\ thrown = NoError
  /\ responses = <<>>
  /\ escaped = NoError
  /\ log = <<>>
  /\ remembered = NoMemory

Logged(entries) == log \o Written(config.LOG_LEVEL, entries)

\* The configuration axios sends a request with: the instance's defaults
\* merged with the call's own
RequestConfig(defaults, request) ==
  [baseURL |-> defaults.baseURL, timeout |-> defaults.timeout, auth |-> defaults.auth,
   url |-> request.url, method |-> request.method]

\* The texts of a logged error
ErrorTexts(error) ==
  IF error.name = "ZodError" THEN IssueTexts(error.issues) ELSE <<error.message>>

(***************************************************************************)
(* Actions                                                                 *)
(***************************************************************************)
\* The protocol layer delivers an invocation (345-348).
Receive(tool, a) ==
  /\ pc = "idle"
  /\ pc' = "received"
  /\ name' = tool
  /\ args' = a
  /\ log' = Logged(<<LogEntry("info", "Executing WordPress tool: " \o tool)>>)
  /\ UNCHANGED <<config, env, client, remembered, validatedArgs, requests, outcome, result, thrown, responses,
                 escaped>>

\* A handler that passes the raw arguments on without parsing them
EnterHandlerSkipsValidation ==
  /\ pc = "received"
  /\ name \in SchemaTools
  /\ pc' = "validated"
  /\ validatedArgs' = args
  /\ UNCHANGED <<config, env, client, remembered, name, args, requests, outcome, result, thrown, responses,
                 escaped, log>>

\* switch (name): a tool with a schema; its handler starts with Schema.parse.
EnterHandler ==
  /\ pc = "received"
  /\ name \in SchemaTools
  /\ pc' = "validating"
  /\ UNCHANGED <<config, env, client, remembered, name, args, validatedArgs, requests, outcome, result,
                 thrown, responses, escaped, log>>

\* A validator that reports the violations in an order that is not fixed
ValidateUnordered ==
  /\ pc = "validating"
  /\ LET c == Parse(SchemaOf(name), args)
     IN /\ pc' = IF c.type = "return" THEN "validated" ELSE "validation_failed"
        /\ validatedArgs' = IF c.type = "return" THEN c.value ELSE validatedArgs
        /\ \/ thrown' = IF c.type = "throw" THEN c.value ELSE thrown
           \/ /\ c.type = "throw"
              /\ thrown' = [c.value EXCEPT !.issues =
                              [i \in 1..Len(c.value.issues) |->
                                 c.value.issues[Len(c.value.issues) + 1 - i]]]
  /\ UNCHANGED <<config, env, client, remembered, name, args, requests, outcome, result, responses, escaped, log>>

\* A handler that calls its client operation with the raw arguments before
\* it parses them
ValidateAfterSending ==
  /\ pc = "validating"
  /\ requests' = Append(requests, ClientRequest(name, args))
  /\ LET c == Parse(SchemaOf(name), args)
     IN /\ pc' = IF c.type = "return" THEN "validated" ELSE "validation_failed"
        /\ validatedArgs' = IF c.type = "return" THEN c.value ELSE validatedArgs
        /\ thrown' = IF c.type = "throw" THEN c.value ELSE thrown
  /\ UNCHANGED <<config, env, client, remembered, name, args, outcome, result, responses, escaped, log>>

\* The handler's first statement: validatedArgs = Schema.parse(args).
Validate ==
  /\ pc = "validating"
  /\ LET c == Parse(SchemaOf(name), args)
     IN /\ pc' = IF c.type = "return" THEN "validated" ELSE "validation_failed"
        /\ validatedArgs' = IF c.type = "return" THEN c.value ELSE validatedArgs
        /\ thrown' = IF c.type = "throw" THEN c.value ELSE thrown
  /\ UNCHANGED <<config, env, client, remembered, name, args, requests, outcome, result, responses, escaped, log>>

\* The ZodError leaves the handler and reaches the call handler's catch (382).
CatchValidationError ==
  /\ pc = "validation_failed"
  /\ pc' = "formatting"
  /\ UNCHANGED <<config, env, client, remembered, name, args, validatedArgs, requests, outcome, result,
                 thrown, responses, escaped, log>>

\* The entry a client operation logs before it sends its request
ClientStartLog(tool) ==
  CASE tool = "create_wordpress_post" -> LogEntry("info", "Creating WordPress post")
    [] tool = "update_wordpress_post" -> LogEntry("info", "Updating WordPress post")
    [] tool = "delete_wordpress_post" -> LogEntry("info", "Deleting WordPress post")
    [] tool = "list_wordpress_posts" -> LogEntry("debug", "Fetching WordPress posts")
    [] tool = "get_wordpress_post" -> LogEntry("debug", "Fetching WordPress post")
    [] tool = "get_wordpress_categories" -> LogEntry("debug", "Fetching WordPress categories")
    [] tool = "get_wordpress_tags" -> LogEntry("debug", "Fetching WordPress tags")
    [] tool = "test_wordpress_connection" ->
         LogEntry("info", "Testing WordPress API connection...")

\* The handler calls its client operation, which builds and sends the
\* request and awaits the answer.
Invoke ==
  /\ pc = "validated"
  /\ pc' = "invoking"
  /\ requests' = Append(requests, ClientRequest(name, validatedArgs))
  /\ log' = Logged(<<ClientStartLog(name), LogEntry("debug", "WordPress API request")>>)
  /\ UNCHANGED <<config, env, client, remembered, name, args, validatedArgs, outcome, result, thrown, responses,
                 escaped>>

\* switch (name): test_wordpress_connection has no arguments to validate;
\* handleTestConnection calls testConnection at once (365, 476, 357-362).
InvokeTestConnection ==
  /\ pc = "received"
  /\ name = "test_wordpress_connection"
  /\ pc' = "invoking"
  /\ requests' = Append(requests, testConnectionRequest)
  /\ log' = Logged(<<ClientStartLog(name), LogEntry("debug", "WordPress API request")>>)
  /\ UNCHANGED <<config, env, client, remembered, name, args, validatedArgs, outcome, result, thrown, responses,
                 escaped>>

\* switch (name): default (376-380) throws McpError inside the try block.
RejectUnknownTool ==
  /\ pc = "received"
  /\ name \notin KnownTools
  /\ pc' = "formatting"
  /\ thrown' = McpError("-32601", "Unknown tool: " \o name)
  /\ UNCHANGED <<config, env, client, remembered, name, args, validatedArgs, requests, outcome, result,
                 responses, escaped, log>>

\* The remote service answers 2xx with body `data`; the response
\* interceptor logs it (270-276) and the await resumes.
RemoteResponds(data) ==
  /\ pc = "invoking"
  /\ pc' = "invoked"
  /\ outcome' = [state |-> "fulfilled", error |-> NoError]
  /\ result' = data
  /\ log' = Logged(<<LogEntry("debug", "WordPress API response")>>)
  /\ UNCHANGED <<config, env, client, remembered, name, args, validatedArgs, requests, thrown, responses, escaped>>

\* The request fails (a non-2xx answer, or no answer: the timeout fired or
\* the connection failed); the response interceptor runs handleApiError.
RemoteFails(error) ==
  /\ pc = "invoking"
  /\ pc' = "invocation_failed"
  /\ LET e == InFlight(error, RequestConfig(client, requests[Len(requests)]))
     IN /\ outcome' = [state |-> "rejected", error |-> e]
        /\ thrown' = handleApiError(e)
        /\ log' = Logged(<<handleApiErrorLog(e)>>)
  /\ UNCHANGED <<config, env, client, remembered, name, args, validatedArgs, requests, result, responses, escaped>>

\* Any other value thrown while the call is awaited: the interceptor's
\* success callback (270-276) throws, which handleApiError never sees.
InterceptorThrows ==
  /\ pc = "invoking"
  /\ pc' = "invocation_failed"
  /\ outcome' = [state |-> "rejected", error |-> TypeError("interceptor failed")]
  /\ thrown' = TypeError("interceptor failed")
  /\ UNCHANGED <<config, env, client, remembered, name, args, validatedArgs, requests, result, responses,
                 escaped, log>>

\* The rest of the client operation's try block after the await: some
\* operations read response.data (a null body throws into their own catch,
\* which logs and rethrows); testConnection returns its success pair.
ClientReturns ==
  /\ pc = "invoked"
  /\ pc' = "formatting"
  /\ IF name = "test_wordpress_connection"
     THEN /\ result' = testConnectionOk
          /\ thrown' = thrown
          /\ log' = Logged(<<ClientSuccessLog(name)>>)
     ELSE IF name \in ReadsResponseData /\ Nullish(result)
     THEN /\ result' = Undef
          /\ thrown' = TypeError("Cannot read properties of null")
          /\ log' = Logged(<<ClientFailureLog(name)>>)
     ELSE /\ result' = result
          /\ thrown' = thrown
          /\ log' = Logged(<<ClientSuccessLog(name)>>)
  /\ UNCHANGED <<config, env, client, remembered, name, args, validatedArgs, requests, outcome, responses, escaped>>

\* A catch block that sends the failed request once more before it gives up
ClientCatchesRetries ==
  /\ pc = "invocation_failed"
  /\ pc' = "formatting"
  /\ requests' = Append(requests, requests[Len(requests)])
  /\ log' = Logged(<<ClientFailureLog(name)>>)
  /\ IF name = "test_wordpress_connection"
     THEN /\ result' = testConnectionCatch(thrown)
          /\ thrown' = NoError
     ELSE UNCHANGED <<result, thrown>>
  /\ UNCHANGED <<config, env, client, remembered, name, args, validatedArgs, outcome, responses, escaped>>

\* A testConnection whose catch handles classified errors only and rethrows
\* anything else
ClientCatchesRethrowsUnknown ==
  /\ pc = "invocation_failed"
  /\ pc' = "formatting"
  /\ log' = Logged(<<ClientFailureLog(name)>>)
  /\ IF name = "test_wordpress_connection" /\ thrown.name = "WordPressError"
     THEN /\ result' = testConnectionCatch(thrown)
          /\ thrown' = NoError
     ELSE UNCHANGED <<result, thrown>>
  /\ UNCHANGED <<config, env, client, remembered, name, args, validatedArgs, requests, outcome, responses, escaped>>

\* A catch block that wraps what it caught in an error of its own
ClientCatchesReclassifies ==
  /\ pc = "invocation_failed"
  /\ pc' = "formatting"
  /\ log' = Logged(<<ClientFailureLog(name)>>)
  /\ IF name = "test_wordpress_connection"
     THEN /\ result' = testConnectionCatch(thrown)
          /\ thrown' = NoError
     ELSE /\ thrown' = WordPressError("Request failed", "WORDPRESS_ERROR", Undef)
          /\ UNCHANGED result
  /\ UNCHANGED <<config, env, client, remembered, name, args, validatedArgs, requests, outcome, responses, escaped>>

\* The client operation's catch block: it logs and rethrows; testConnection's
\* returns the failure as a pair instead (366-373).
ClientCatches ==
  /\ pc = "invocation_failed"
  /\ pc' = "formatting"
  /\ log' = Logged(<<ClientFailureLog(name)>>)
  /\ IF name = "test_wordpress_connection"
     THEN /\ result' = testConnectionCatch(thrown)
          /\ thrown' = NoError
     ELSE UNCHANGED <<result, thrown>>
  /\ UNCHANGED <<config, env, client, remembered, name, args, validatedArgs, requests, outcome, responses, escaped>>

\* The completion of the try block of the call handler (350-381): the
\* error in flight, or else what the handler makes of the client's result.
HandlerCompletion ==
  IF thrown # NoError THEN Throw(thrown)
  ELSE FormatResult(config, name, validatedArgs, result)

\* The handler formats its response, or the catch block (382-384) has
\* handleToolError format the error; the call handler returns.
Respond ==
  /\ pc = "formatting"
  /\ pc' = "responded"
  /\ LET h == HandlerCompletion
         c == IF h.type = "throw" THEN handleToolError(h.value, name, args) ELSE h
     IN /\ thrown' = IF h.type = "throw" THEN h.value ELSE NoError
        /\ responses' = IF c.type = "return" THEN Append(responses, c.value) ELSE responses
        /\ escaped' = IF c.type = "throw" THEN c.value ELSE escaped
        /\ log' = IF h.type = "throw"
                  THEN Logged(<<LogEntryWith("error", "Tool execution failed: " \o name,
                                             ErrorTexts(h.value))>>)
                  ELSE log
  /\ UNCHANGED <<config, env, client, remembered, name, args, validatedArgs, requests, outcome, result>>

\* The protocol layer has the response; the handler's locals are gone.
Complete ==
  /\ pc = "responded"
  /\ pc' = "idle"
  /\ name' = ""
  /\ args' = Undef
  /\ validatedArgs' = Undef
  /\ requests' = <<>>
  /\ outcome' = Pending
  /\ result' = Undef
  /\ thrown' = NoError
  /\ responses' = <<>>
  /\ escaped' = NoError
  /\ log' = <<>>
  /\ UNCHANGED <<config, env, client, remembered>>

RemoteAnswers ==
  \/ \E data \in RemoteData(name) : RemoteResponds(data)
  \/ \E error \in RemoteFailures(config) : RemoteFails(error)
  \/ InterceptorThrows

Next ==
  \/ \E tool \in ToolNames : \E a \in ArgsFor(tool) : Receive(tool, a)
  \/ EnterHandler
  \/ Validate
  \/ CatchValidationError
  \/ Invoke
  \/ InvokeTestConnection
  \/ RejectUnknownTool
  \/ RemoteAnswers
  \/ ClientReturns
  \/ ClientCatches
  \/ Respond
  \/ Complete

Spec == Init /\ [][Next]_vars

\* The remote service eventually answers or the timeout fires; the event
\* loop runs every continuation that is ready.
FairSpec ==
  /\ Spec
  /\ WF_vars(EnterHandler) /\ WF_vars(Validate) /\ WF_vars(CatchValidationError)
  /\ WF_vars(Invoke) /\ WF_vars(InvokeTestConnection) /\ WF_vars(RejectUnknownTool)
  /\ WF_vars(RemoteAnswers) /\ WF_vars(ClientReturns) /\ WF_vars(ClientCatches)
  /\ WF_vars(Respond)

(***************************************************************************)
(* Two invocations compared: the server keeps no state from one invocation *)
(* to the next, so the validation of an earlier invocation is kept in the  *)
(* history variable `remembered` when that invocation completes.           *)
(***************************************************************************)
\* The invocations whose validation is remembered: one whose arguments
\* violate two fields, one whose arguments pass.
Watched ==
  {<<"create_wordpress_post",
     Obj([title |-> Str(""), content |-> Str(""), status |-> Undef, excerpt |-> Undef,
          categories |-> Undef, tags |-> Undef])>>,
   <<"delete_wordpress_post", Obj([id |-> Num(1), force |-> Undef])>>}

\* What validation made of the invocation being served: the ZodError it
\* threw, or the value it returned
ValidationOutcome ==
  IF thrown.name = "ZodError" THEN Throw(thrown) ELSE Return(validatedArgs)

\* Complete, the history recording the validation of a watched invocation
CompleteRemembering ==
  /\ pc = "responded"
  /\ pc' = "idle"
  /\ name' = ""
  /\ args' = Undef
  /\ validatedArgs' = Undef
  /\ requests' = <<>>
  /\ outcome' = Pending
  /\ result' = Undef
  /\ thrown' = NoError
  /\ responses' = <<>>
  /\ escaped' = NoError
  /\ log' = <<>>
  /\ remembered' = IF <<name, args>> \in Watched
                   THEN [name |-> name, args |-> args, outcome |-> ValidationOutcome]
                   ELSE remembered
  /\ UNCHANGED <<config, env, client>>

NextHistory ==
  \/ \E tool \in ToolNames : \E a \in ArgsFor(tool) : Receive(tool, a)
  \/ EnterHandler
  \/ Validate
  \/ CatchValidationError
  \/ Invoke
  \/ InvokeTestConnection
  \/ RejectUnknownTool
  \/ RemoteAnswers
  \/ ClientReturns
  \/ ClientCatches
  \/ Respond
  \/ CompleteRemembering

HistorySpec == Init /\ [][NextHistory]_vars

(***************************************************************************)
(* Two invocations compared by their responses: the history keeps the      *)
(* remote answer and the response of an earlier invocation.                *)
(***************************************************************************)
\* What the remote service answered the invocation being served
RemoteAnswer == [outcome |-> outcome, data |-> result]

\* The invocations whose response is remembered: a deletion of post 1 that
\* the service carried out, and one it answered with 404 and no body
WatchedAnswer ==
  /\ name = "delete_wordpress_post"
  /\ args = Obj([id |-> Num(1), force |-> Undef])
  /\ \/ /\ outcome.state = "fulfilled"
        /\ result = Obj([deleted |-> Bool(TRUE), previous |-> APost])
     \/ /\ outcome.state = "rejected"
        /\ outcome.error.name = "AxiosError"
        /\ Truthy(outcome.error.response)
        /\ Field(outcome.error.response, "status") = Num(404)
        /\ Field(outcome.error.response, "data") = Undef

\* A handler return after which a server that failed once stays failed
CompleteRememberingLeaking ==
  /\ pc = "responded"
  /\ pc' = "idle"
  /\ name' = ""
  /\ args' = Undef
  /\ validatedArgs' = Undef
  /\ requests' = <<>>
  /\ outcome' = Pending
  /\ result' = Undef
  /\ thrown' = IF thrown = NoError THEN NoError ELSE TypeError("stale")
  /\ responses' = <<>>
  /\ escaped' = NoError
  /\ log' = <<>>
  /\ remembered' = IF WatchedAnswer
                   THEN [name |-> name, args |-> args, answer |-> RemoteAnswer,
                         responses |-> responses]
                   ELSE remembered
  /\ UNCHANGED <<config, env, client>>

\* Complete, the history recording the response of a watched invocation
CompleteRememberingResponse ==
  /\ pc = "responded"
  /\ pc' = "idle"
  /\ name' = ""
  /\ args' = Undef
  /\ validatedArgs' = Undef
  /\ requests' = <<>>
  /\ outcome' = Pending
  /\ result' = Undef
  /\ thrown' = NoError
  /\ responses' = <<>>
  /\ escaped' = NoError
  /\ log' = <<>>
  /\ remembered' = IF WatchedAnswer
                   THEN [name |-> name, args |-> args, answer |-> RemoteAnswer,
                         responses |-> responses]
                   ELSE remembered
  /\ UNCHANGED <<config, env, client>>

NextFrame ==
  \/ \E tool \in ToolNames : \E a \in ArgsFor(tool) : Receive(tool, a)
  \/ EnterHandler
  \/ Validate
  \/ CatchValidationError
  \/ Invoke
  \/ InvokeTestConnection
  \/ RejectUnknownTool
  \/ RemoteAnswers
  \/ ClientReturns
  \/ ClientCatches
  \/ Respond
  \/ CompleteRememberingResponse

FrameSpec == Init /\ [][NextFrame]_vars

(***************************************************************************)
(* Servers that differ in the application password only                    *)
(***************************************************************************)
SecretEnvs ==
  {e \in Envs : /\ e.WORDPRESS_URL = Str("https://x.com")
                /\ e.WORDPRESS_APP_PASSWORD \in {Str("abcd efgh"), Str("wxyz 1234")}
                /\ e.LOG_LEVEL = Str("debug")
                /\ e.REQUEST_TIMEOUT = Undef}

InitSecret ==
  /\ env \in SecretEnvs
  /\ loadConfig(env).type = "return"
  /\ config = loadConfig(env).value
  /\ client = AxiosCreate(config)
  /\ pc = "idle"
  /\ name = ""
  /\ args = Undef
  /\ validatedArgs = Undef
  /\ requests = <<>>
  /\ outcome = Pending
  /\ result = Undef
  /\ thrown = NoError
  /\ responses = <<>>
  /\ escaped = NoError
  /\ log = <<>>
  /\ remembered = NoMemory

SecretSpec == InitSecret /\ [][Next]_vars

(***************************************************************************)
(* Startup: the constructor of WordPressMcpServer, run on an environment   *)
(***************************************************************************)
NotConstructed == [t |-> "undefined", v |-> 0]

\* Before main() constructs the server
InitStart ==
  /\ env \in Envs
  /\ config = NotConstructed
  /\ client = NotConstructed
  /\ pc = "starting"
  /\ name = ""
  /\ args = Undef
  /\ validatedArgs = Undef
  /\ requests = <<>>
  /\ outcome = Pending
  /\ result = Undef
  /\ thrown = NoError
  /\ responses = <<>>
  /\ escaped = NoError
  /\ log = <<>>
  /\ remembered = NoMemory

\* new WordPressMcpServer() (37-56): loadConfig, then the client; an invalid
\* configuration throws out of the constructor and main() exits.
Construct ==
  /\ pc = "starting"
  /\ LET c == loadConfig(env)
     IN IF c.type = "return"
        THEN /\ config' = c.value
             /\ client' = AxiosCreate(c.value)
             /\ pc' = "idle"
             /\ escaped' = escaped
        ELSE /\ pc' = "exited"
             /\ escaped' = c.value
             /\ UNCHANGED <<config, client>>
  /\ UNCHANGED <<env, name, args, validatedArgs, requests, outcome, result, thrown,
                 responses, log, remembered>>

StartSpec == InitStart /\ [][Construct]_vars

\* The server was constructed
Started == pc = "idle" /\ config # NotConstructed

(***************************************************************************)
(* Properties                                                              *)
(***************************************************************************)
\* The response carries isError: true
IsError(r) == "isError" \in DOMAIN r /\ r.isError = TRUE

\* The response is exactly {content: [{type: 'text', text}], isError: true}
IsErrorShape(r) ==
  /\ DOMAIN r = {"content", "isError"}
  /\ r.isError = TRUE
  /\ Len(r.content) = 1
  /\ DOMAIN r.content[1] = {"type", "text"}
  /\ r.content[1].type = "text"

\* Schema validation failed in the invocation being served
ValidationFailed == thrown.name = "ZodError"

\* The request was sent and the call failed
RemoteCallFailed == outcome.state = "rejected"

\* The invocation went through validation, the call and formatting with no
\* error
SuccessPath == thrown = NoError /\ outcome.state = "fulfilled"

\* The failed request came back with this status
FailedWithStatus(st) ==
  /\ outcome.error.name = "AxiosError"
  /\ Truthy(outcome.error.response)
  /\ Field(outcome.error.response, "status").v = st

FailureBody == Field(outcome.error.response, "data")

\* C1: an invocation of a tool with a schema whose arguments fail validation
\* sends no HTTP request at any point: none before validation has finished,
\* none once it has failed.
C1_ValidationFailureSendsNothing ==
  (/\ name \in SchemaTools
   /\ \/ pc \in {"received", "validating", "validation_failed"}
      \/ ValidationFailed)
  => requests = <<>>

C1_Witness ==
  /\ pc = "responded"
  /\ name = "create_wordpress_post"
  /\ ValidationFailed
  /\ Len(thrown.issues) >= 2
  /\ requests = <<>>
  /\ IsError(responses[1])

C3_Original ==
  pc = "responded"
  => /\ Len(responses) = 1
     /\ (ValidationFailed \/ RemoteCallFailed) => IsError(responses[1])
     /\ SuccessPath => ~IsError(responses[1])

\* C3 as amended: the same for every operation but the connection test; the
\* connection test answers with isError unset whether its read succeeded or
\* failed.
C3_ErrorFlag ==
  pc = "responded"
  => /\ Len(responses) = 1
     /\ name # "test_wordpress_connection"
        => /\ (ValidationFailed \/ RemoteCallFailed) => IsError(responses[1])
           /\ SuccessPath => ~IsError(responses[1])
     /\ name = "test_wordpress_connection" => ~IsError(responses[1])

C3_Witness ==
  /\ pc = "responded"
  /\ name = "delete_wordpress_post"
  /\ RemoteCallFailed
  /\ thrown.name = "WordPressError"
  /\ IsError(responses[1])

\* The transitions of the state machine
\* received -> validating -> {validation_failed | validated} -> invoking
\*   -> {invocation_failed | invoked} -> formatting -> responded,
\* a failed validation going on to formatting.
PipelineEdges ==
  {<<"idle", "received">>, <<"received", "validating">>,
   <<"validating", "validated">>, <<"validating", "validation_failed">>,
   <<"validation_failed", "formatting">>, <<"validated", "invoking">>,
   <<"invoking", "invoked">>, <<"invoking", "invocation_failed">>,
   <<"invoked", "formatting">>, <<"invocation_failed", "formatting">>,
   <<"formatting", "responded">>, <<"responded", "idle">>}

\* The tool name of the invocation a step belongs to
StepTool == IF pc = "idle" THEN name' ELSE name

\* C4 as stated: every invocation moves along the state machine's
\* transitions only, and every invocation received is eventually responded
\* to.
C4_Original ==
  /\ [][pc' # pc => <<pc, pc'>> \in PipelineEdges]_vars
  /\ (pc = "received") ~> (pc = "responded")

\* C4 as amended: an invocation of a tool that takes arguments moves along
\* the state machine's transitions only, so its request is sent only after
\* its arguments passed validation; the connection test, which validates
\* nothing, goes from received to invoking, and an unknown tool name from
\* received to formatting; formatting starts only after the call finished or
\* failed or no call was made; every invocation received is eventually
\* responded to.
C4_Order ==
  /\ [][pc' # pc =>
          \/ <<pc, pc'>> \in PipelineEdges /\ (pc' = "validating" => StepTool \in SchemaTools)
          \/ <<pc, pc'>> = <<"received", "invoking">>
             /\ StepTool = "test_wordpress_connection"
          \/ <<pc, pc'>> = <<"received", "formatting">> /\ StepTool \notin KnownTools]_vars
  /\ [](pc \in {"invoking", "invoked", "invocation_failed"} /\ name \in SchemaTools
        => ~ValidationFailed /\ Parse(SchemaOf(name), args) = Return(validatedArgs))
  /\ [](pc = "formatting"
        => outcome.state # "pending" \/ requests = <<>>)
  /\ (pc = "received") ~> (pc = "responded")

C4_Witness ==
  /\ pc = "responded"
  /\ name = "delete_wordpress_post"
  /\ validatedArgs = Obj([id |-> Num(1), force |-> Bool(TRUE)])
  /\ Len(requests) = 1
  /\ RemoteCallFailed

C6_UnknownToolIsRejectedWithFault ==
  (pc = "responded" /\ name \notin KnownTools)
  => (escaped.name = "McpError" /\ responses = <<>> /\ requests = <<>>)

\* The codes of the statuses classified by status alone
FixedCodes ==
  (401 :> "AUTHENTICATION_ERROR") @@ (403 :> "PERMISSION_ERROR")
  @@ (404 :> "NOT_FOUND_ERROR") @@ (429 :> "RATE_LIMIT_ERROR")

\* C7: a failure with no response is classified NETWORK_ERROR with no
\* status; a response with status 401, 403, 404 or 429 is classified by that
\* status alone, with that status and a message that no body changes.
C7_FixedClassification ==
  (pc = "invocation_failed" /\ outcome.error.name = "AxiosError")
  => /\ thrown.name = "WordPressError"
     /\ IF ~Truthy(outcome.error.response)
        THEN thrown.code = "NETWORK_ERROR" /\ thrown.statusCode = Undef
        ELSE LET st == Field(outcome.error.response, "status").v
             IN st \in DOMAIN FixedCodes
                => /\ thrown.code = FixedCodes[st]
                   /\ thrown.statusCode = Num(st)
                   /\ \A b \in ErrorBodies :
                        Str(thrown.message) # Field(b, "message")
                        /\ handleApiError(AxiosError(outcome.error.message,
                                                     outcome.error.code,
                                                     HttpResponse(st, b))) = thrown

C7_Witness ==
  /\ pc = "invocation_failed"
  /\ FailedWithStatus(401)
  /\ Field(FailureBody, "code") = Str("rest_invalid_param")
  /\ thrown.code = "AUTHENTICATION_ERROR"
  /\ thrown.statusCode = Num(401)

\* C8: for a failed response whose status is not 401, 403, 404 or 429, the
\* error's code is the body's own code when the body has a (non-empty) one
\* and API_ERROR otherwise, and the error carries the response's status.
C8_DefaultClassification ==
  (/\ pc = "invocation_failed"
   /\ outcome.error.name = "AxiosError"
   /\ Truthy(outcome.error.response)
   /\ Field(outcome.error.response, "status").v \notin DOMAIN FixedCodes)
  => /\ thrown.name = "WordPressError"
     /\ thrown.code = IF Truthy(Field(FailureBody, "code"))
                      THEN Field(FailureBody, "code").v
                      ELSE "API_ERROR"
     /\ thrown.statusCode = Field(outcome.error.response, "status")

C8_Witness ==
  /\ pc = "invocation_failed"
  /\ FailedWithStatus(500)
  /\ Field(FailureBody, "code") = Str("rest_invalid_param")
  /\ thrown.code = "rest_invalid_param"
  /\ thrown.statusCode = Num(500)

\* C9: testConnection never throws: whether its read succeeded, failed with
\* a classified error or with anything else, it returns a {success, message}
\* pair, success being true exactly when the read succeeded; the response
\* says PASSED exactly when success is true and FAILED otherwise.
C9_TestConnectionNeverThrows ==
  (name = "test_wordpress_connection" /\ pc \in {"formatting", "responded"})
  => /\ thrown = NoError
     /\ Keys(result) = {"success", "message"}
     /\ Field(result, "success") = Bool(outcome.state = "fulfilled")
     /\ pc = "responded"
        => /\ Len(responses) = 1
           /\ responses[1].content[1].text.banner =
                IF Field(result, "success") = Bool(TRUE) THEN "PASSED" ELSE "FAILED"

C9_Witness ==
  /\ name = "test_wordpress_connection"
  /\ pc = "responded"
  /\ outcome.error.name = "TypeError"
  /\ result = Obj([success |-> Bool(FALSE), message |-> Str("Unknown connection error")])
  /\ responses[1].content[1].text.banner = "FAILED"

\* The fields an update can carry besides the id
UpdateFields == {"title", "content", "status", "excerpt", "categories", "tags"}

\* C10: the keys of the payload of an update are exactly the fields present
\* in its arguments: every supplied field is sent, an empty excerpt or an
\* empty categories/tags array included, and no other.
C10_UpdatePayloadKeys ==
  (name = "update_wordpress_post" /\ requests # <<>>)
  => Keys(requests[1].data) = {k \in UpdateFields : Has(args, k)}

\* The fields sent in their raw form
RawFields == {"title", "content", "excerpt"}

\* The value the client sends for field k of the arguments a
SentForm(a, k) == IF k \in RawFields THEN Raw(Field(a, k)) ELSE Field(a, k)

\* C11: the payload of an update has no key for a field absent from the
\* arguments: every key it has is a field the caller supplied, carrying the
\* caller's own value, never null, undefined or an empty stand-in.
C11_UpdateSendsSuppliedOnly ==
  (name = "update_wordpress_post" /\ requests # <<>>)
  => LET data == requests[1].data
     IN /\ Keys(data) \subseteq UpdateFields
        /\ \A k \in Keys(data) :
             /\ Has(args, k)
             /\ Field(data, k) = SentForm(args, k)
             /\ Field(data, k) \notin {Str(""), Raw(Str("")), Raw(Undef)}

C11_Witness ==
  /\ name = "update_wordpress_post"
  /\ requests # <<>>
  /\ Keys(args) = {"id", "title"}
  /\ Keys(requests[1].data) = {"title"}
  /\ requests[1].data.v.title = Raw(Str("New title"))

\* C12: the payload of a create carries title and content (and excerpt,
\* when it is sent) in raw form only, always carries status (draft when the
\* caller gave none), and has no categories key and no tags key when the
\* caller supplied none; {title: 'Hello World', content: 'Body'} gives
\* exactly {title: {raw: 'Hello World'}, content: {raw: 'Body'}, status: 'draft'}.
C12_CreatePayload ==
  (name = "create_wordpress_post" /\ requests # <<>>)
  => LET data == requests[1].data
     IN /\ Keys(data) \subseteq UpdateFields
        /\ Field(data, "title") = Raw(Field(args, "title"))
        /\ Field(data, "content") = Raw(Field(args, "content"))
        /\ Has(data, "excerpt") => Field(data, "excerpt") = Raw(Field(args, "excerpt"))
        /\ Field(data, "status") =
             (IF Has(args, "status") THEN Field(args, "status") ELSE Str("draft"))
        /\ ~Has(args, "categories") => ~Has(data, "categories")
        /\ ~Has(args, "tags") => ~Has(data, "tags")
        /\ Keys(args) = {"title", "content"}
             /\ Field(args, "title") = Str("Hello World")
             /\ Field(args, "content") = Str("Body")
           => /\ Keys(data) = {"title", "content", "status"}
              /\ data.v.title = Raw(Str("Hello World"))
              /\ data.v.content = Raw(Str("Body"))
              /\ data.v.status = Str("draft")

C12_Witness ==
  /\ name = "create_wordpress_post"
  /\ requests # <<>>
  /\ Keys(args) = {"title", "content"}
  /\ Field(args, "title") = Str("Hello World")
  /\ Field(args, "content") = Str("Body")
  /\ Keys(requests[1].data) = {"title", "content", "status"}
  /\ requests[1].data.v.status = Str("draft")

\* The defaults of the list query
ListDefaults ==
  [per_page |-> Num(10), page |-> Num(1), status |-> Str("any"),
   order |-> Str("desc"), orderby |-> Str("date")]

\* C13: the query of a list always has per_page, page, status, order and
\* orderby, each the caller's value or else its default (10, 1, any, desc,
\* date); search, author, categories and tags are in the query only if the
\* caller supplied them, categories and tags comma-joined; context=edit is
\* in the query exactly when include_content is true.
C13_ListQuery ==
  (name = "list_wordpress_posts" /\ requests # <<>>)
  => LET q == requests[1].params
     IN /\ Keys(q) \subseteq
             DOMAIN ListDefaults \cup {"search", "author", "categories", "tags", "context"}
        /\ \A k \in DOMAIN ListDefaults :
             Field(q, k) = (IF Has(args, k) THEN Field(args, k) ELSE ListDefaults[k])
        /\ \A k \in {"search", "author"} :
             Has(q, k) => (Has(args, k) /\ Field(q, k) = Field(args, k))
        /\ \A k \in {"categories", "tags"} :
             Has(q, k) => /\ Has(args, k)
                          /\ Field(q, k) = Str(JoinNumbers(Field(args, k).v, ","))
        /\ Has(q, "context") <=> Field(args, "include_content") = Bool(TRUE)
        /\ Has(q, "context") => Field(q, "context") = Str("edit")

C13_Witness ==
  /\ name = "list_wordpress_posts"
  /\ requests # <<>>
  /\ Keys(args) = {"search", "categories", "include_content"}
  /\ Keys(requests[1].params) =
       DOMAIN ListDefaults \cup {"search", "categories", "context"}
  /\ requests[1].params.v.per_page = Num(10)
  /\ requests[1].params.v.orderby = Str("date")
  /\ requests[1].params.v.categories = Str("1,2")
  /\ requests[1].params.v.context = Str("edit")

\* A list that came back with at least one post has been formatted
ListedSome ==
  /\ pc = "responded"
  /\ name = "list_wordpress_posts"
  /\ SuccessPath
  /\ result.t = "array"
  /\ Len(result.v) > 0

\* C14: the response of a list that returned at least one post echoes the
\* pagination if and only if the caller supplied page or per_page; with
\* neither supplied it has no pagination text.
C14_PaginationEchoedIffSupplied ==
  ListedSome
  => (responses[1].content[1].text.pagination # ""
      <=> (Has(args, "page") \/ Has(args, "per_page")))

\* C15: a list whose read succeeds with zero posts answers with the fixed
\* "no results" message, whatever the arguments were, and isError unset.
C15_EmptyListMessage ==
  (/\ pc = "responded"
   /\ name = "list_wordpress_posts"
   /\ outcome.state = "fulfilled"
   /\ result = Arr(<<>>))
  => responses =
       <<[content |-> <<[type |-> "text",
                         text |-> [kind |-> "no_posts",
                                   message |-> "No WordPress posts found matching the criteria."]]>>]>>

C15_Witness ==
  /\ pc = "responded"
  /\ name = "list_wordpress_posts"
  /\ outcome.state = "fulfilled"
  /\ result = Arr(<<>>)
  /\ Field(args, "per_page") = Num(5)
  /\ Field(args, "page") = Num(MaxPage)
  /\ ~IsError(responses[1])
  /\ responses[1].content[1].text.message = "No WordPress posts found matching the criteria."

\* C16: every delete whose request succeeded renders "permanently deleted"
\* when the validated force is true and "moved to trash" when it is false or
\* was left out, whatever the body of the answer.
C16_DeleteWording ==
  (pc = "responded" /\ name = "delete_wordpress_post" /\ outcome.state = "fulfilled")
  => LET text == responses[1].content[1].text
     IN /\ "action" \in DOMAIN text
        /\ text.action = IF Field(validatedArgs, "force") = Bool(TRUE)
                         THEN "permanently deleted" ELSE "moved to trash"

\* An empty page of categories or tags has been formatted
EmptyTerms ==
  /\ pc = "responded"
  /\ name \in {"get_wordpress_categories", "get_wordpress_tags"}
  /\ outcome.state = "fulfilled"
  /\ result = Arr(<<>>)

TermWord == IF name = "get_wordpress_categories" THEN "categories" ELSE "tags"

\* C17: an empty result of get_wordpress_categories or get_wordpress_tags
\* gives, when the page asked for is above 1, a message that names the page
\* and suggests a lower page number, and the plain "none found" message when
\* the page is 1 or was left out; the two differ and neither sets isError.
C17_EmptyPageMessage ==
  EmptyTerms
  => LET page == Field(args, "page")
         onPage == "No WordPress " \o TermWord \o " found on page "
                   \o ToString(page.v) \o ". Try a lower page number."
         plain == "No WordPress " \o TermWord \o " found."
     IN /\ Len(responses) = 1
        /\ ~IsError(responses[1])
        /\ onPage # plain
        /\ responses[1].content[1].text.message =
             (IF page # Undef /\ page.v > 1 THEN onPage ELSE plain)

C17_Witness ==
  /\ EmptyTerms
  /\ name = "get_wordpress_categories"
  /\ Field(args, "page") = Num(2)
  /\ ~IsError(responses[1])
  /\ responses[1].content[1].text.message =
       "No WordPress categories found on page 2. Try a lower page number."

\* The arguments hold a property the tool's schema does not declare
HasUndeclaredProperty ==
  /\ name \in SchemaTools
  /\ args.t = "object"
  /\ Keys(args) \ ShapeKeys(SchemaOf(name).shape) # {}

\* Validation of the invocation being served is over
ValidationDone == name \in SchemaTools /\ pc \notin {"idle", "received", "validating"}

\* C18: for each of the seven operations with arguments, an argument
\* object with a property its schema does not declare fails validation: the
\* invocation ends with a validation error and sends no request.
C18_UndeclaredPropertyRejected ==
  (HasUndeclaredProperty /\ ValidationDone)
  => (ValidationFailed /\ requests = <<>>)

\* The fields of the tool's schema that the arguments violate
ViolatedFields ==
  LET shape == SchemaOf(name).shape
  IN {shape[i][1] : i \in {j \in 1..Len(shape) :
        FieldIssues(shape[j][1], shape[j][2], Field(args, shape[j][1])) # <<>>}}

\* The fields the thrown ZodError names
ReportedFields ==
  {thrown.issues[i].path[1] : i \in {j \in 1..Len(thrown.issues) : thrown.issues[j].path # <<>>}}

\* C19: once validation is over, either it failed or the validated value
\* meets every constraint and has every default filled in. When it failed,
\* the error names every violated field, not only the first, the response
\* is the "path: message" texts of all the issues joined with ", ", no
\* validated value exists and nothing was passed to the client.
C19_ValidationAllOrNothing ==
  ValidationDone
  => IF ValidationFailed
     THEN /\ validatedArgs = Undef
          /\ requests = <<>>
          /\ thrown.issues # <<>>
          /\ args.t = "object" => ViolatedFields \subseteq ReportedFields
          /\ pc = "responded"
             => /\ IsError(responses[1])
                /\ responses[1].content[1].text.message =
                     Join(IssueTexts(thrown.issues), ", ")
     ELSE /\ ViolatedFields = {}
          /\ Keys(validatedArgs) \subseteq ShapeKeys(SchemaOf(name).shape)
          /\ \A k \in ShapeKeys(SchemaOf(name).shape) :
               Field(validatedArgs, k) =
                 (IF Has(args, k) THEN Field(args, k)
                  ELSE ShapeOf(SchemaOf(name).shape, k).default)

C19_Witness ==
  /\ pc = "responded"
  /\ name = "create_wordpress_post"
  /\ ValidationFailed
  /\ ViolatedFields = {"title", "content"}
  /\ validatedArgs = Undef
  /\ requests = <<>>
  /\ responses[1].content[1].text.message =
       "title: Title is required, content: Content is required"

\* An invocation with the name and arguments of the remembered one is being
\* served, and its validation is over
SameAsRemembered ==
  /\ ValidationDone
  /\ remembered.name = name
  /\ remembered.args = args

WithoutSlash(url) == IF EndsWith(url, "/") THEN SubSeq(url, 1, Len(url) - 1) ELSE url

ClassifiedFailure ==
  /\ name \in SchemaTools
  /\ pc \in {"formatting", "responded"}
  /\ outcome.state = "rejected"
  /\ outcome.error.name = "AxiosError"

\* C22: when the request of create, update, delete, list, get, categories
\* or tags fails with a classified error of code c and message m, that
\* error reaches the call handler as classified, and the response has
\* isError = true and a text made of c and m.
C22_ClassifiedErrorSurfaces ==
  ClassifiedFailure
  => /\ thrown = handleApiError(outcome.error)
     /\ pc = "responded"
        => responses =
             <<[content |-> <<[type |-> "text",
                               text |-> [kind |-> "WordPress Error",
                                         code |-> handleApiError(outcome.error).code,
                                         message |-> handleApiError(outcome.error).message]]>>,
                isError |-> TRUE]>>

C22_Witness ==
  /\ ClassifiedFailure
  /\ pc = "responded"
  /\ name = "delete_wordpress_post"
  /\ args = Obj([id |-> Num(5), force |-> Bool(TRUE)])
  /\ FailedWithStatus(404)
  /\ IsError(responses[1])
  /\ responses[1].content[1].text.code = "NOT_FOUND_ERROR"

\* The configured application password, and the other one
Secret == config.WORDPRESS_APP_PASSWORD

OtherSecret == IF Secret = "abcd efgh" THEN "wxyz 1234" ELSE "abcd efgh"

\* The configuration of the run that differs in the password only
Twin == [config EXCEPT !.WORDPRESS_APP_PASSWORD = OtherSecret]

\* The response the call handler returns in the twin run, for the same
\* invocation and the same answer of the remote service
TwinResponse ==
  LET h == IF thrown # NoError THEN Throw(thrown)
           ELSE FormatResult(Twin, name, validatedArgs, result)
  IN IF h.type = "throw" THEN handleToolError(h.value, name, args).value ELSE h.value

\* No logged text holds the password
LogFreeOf(secret) ==
  \A i \in 1..Len(log) :
    /\ ~Contains(log[i].message, secret)
    /\ "texts" \in DOMAIN log[i]
       => \A j \in 1..Len(log[i].texts) : ~Contains(log[i].texts[j], secret)

\* C23: the application password goes into the authentication of the
\* outbound requests and nowhere else: the response of a run is the
\* response of the run that differs in the password only, the banner of the
\* connection test shows the endpoint and the username, and no response
\* text and no log entry holds the password.
C23_SecretNotEmitted ==
  /\ client.auth.password = Secret
  /\ LogFreeOf(Secret)
  /\ pc = "responded"
     => /\ responses = <<TwinResponse>>
        /\ name = "test_wordpress_connection"
           => LET text == responses[1].content[1].text
              IN /\ DOMAIN text = {"kind", "banner", "message", "url", "username"}
                 /\ text.url = config.WORDPRESS_URL
                 /\ text.username = config.WORDPRESS_USERNAME
                 /\ ~Contains(text.message.v, Secret)
        /\ (thrown # NoError /\ thrown.name # "ZodError")
           => ~Contains(thrown.message, Secret)

C23_Witness ==
  /\ pc = "responded"
  /\ name = "test_wordpress_connection"
  /\ Secret = "wxyz 1234"
  /\ RemoteCallFailed
  /\ FailedWithStatus(401)
  /\ outcome.error.config.auth.password = "wxyz 1234"
  /\ responses[1].content[1].text.banner = "FAILED"
  /\ responses[1].content[1].text.username = "admin"
  /\ \E i \in 1..Len(log) : log[i].message = "WordPress API error"

\* The timeout loadConfig reads from the environment, before validation
RawTimeout == RawConfig(env).REQUEST_TIMEOUT

\* Nothing but the timeout can be wrong with the environment
OnlyTimeoutInQuestion ==
  LET issues == ConfigIssues(RawConfig(env))
  IN \A i \in 1..Len(issues) : issues[i].path = <<"REQUEST_TIMEOUT">>

\* C24 as stated: the configured timeout is clamped to [1000, 60000]: a
\* value below 1000 gives a server whose timeout is 1000, a value above
\* 60000 one whose timeout is 60000, an unset value 30000.
C24_Original ==
  (pc # "starting" /\ OnlyTimeoutInQuestion /\ RawTimeout # NaN)
  => /\ Started
     /\ client.timeout = (IF RawTimeout.v < 1000 THEN 1000
                          ELSE IF RawTimeout.v > 60000 THEN 60000
                          ELSE RawTimeout.v)

\* C24 as amended: a configured timeout below 1000, above 60000 or not a
\* number is rejected: the constructor throws "Configuration validation
\* failed" naming REQUEST_TIMEOUT and no server starts. A value within
\* [1000, 60000] is taken as it is, an unset value gives 30000, and the
\* timeout of every started server lies in [1000, 60000].
C24_TimeoutValidated ==
  /\ Started => (client.timeout \in 1000..60000 /\ client.timeout = config.REQUEST_TIMEOUT)
  /\ (pc # "starting" /\ OnlyTimeoutInQuestion)
     => IF RawTimeout = NaN \/ RawTimeout.v < 1000 \/ RawTimeout.v > 60000
        THEN /\ pc = "exited"
             /\ config = NotConstructed
             /\ Contains(escaped.message, "Configuration validation failed: REQUEST_TIMEOUT: ")
        ELSE /\ Started
             /\ client.timeout = RawTimeout.v
             /\ ~Truthy(env.REQUEST_TIMEOUT) => client.timeout = 30000

C24_Witness ==
  /\ pc = "exited"
  /\ OnlyTimeoutInQuestion
  /\ env.REQUEST_TIMEOUT = Str("999")
  /\ escaped.message =
       "Configuration validation failed: REQUEST_TIMEOUT: Number must be greater than or equal to 1000"

\* The rendered content of the i-th post of the list that came back
Rendered(i) == Field(Field(result.v[i], "content"), "rendered")

\* C25: in the response of a list with include_content = true, the preview
\* of a post is the first 150 characters of its rendered content, followed
\* by the ellipsis if and only if the content is longer than 150
\* characters.
C25_PreviewEllipsisIffTruncated ==
  (ListedSome /\ Field(validatedArgs, "include_content") = Bool(TRUE))
  => \A i \in 1..Len(result.v) :
       Truthy(Rendered(i))
       => responses[1].content[1].text.items[i].preview =
            Str(Substring0(Rendered(i).v, 150)
                \o (IF Len(Rendered(i).v) > 150 THEN "..." ELSE ""))

\* The tools that list categories and tags
TermTools == {"get_wordpress_categories", "get_wordpress_tags"}

\* C26: get_wordpress_categories and get_wordpress_tags always ask for
\* per_page (100 when the caller gave none), page (1 when the caller gave
\* none), orderby=name and order=asc; when at least one item comes back, the
\* response echoes the pagination if and only if the caller supplied page
\* or per_page.
C26_TermsPagination ==
  /\ (name \in TermTools /\ requests # <<>>)
     => /\ Keys(requests[1].params) = {"per_page", "page", "orderby", "order"}
        /\ requests[1].params.v =
             [per_page |-> IF Has(args, "per_page") THEN Field(args, "per_page") ELSE Num(100),
              page |-> IF Has(args, "page") THEN Field(args, "page") ELSE Num(1),
              orderby |-> Str("name"),
              order |-> Str("asc")]
  /\ (/\ pc = "responded"
      /\ name \in TermTools
      /\ SuccessPath
      /\ result.t = "array"
      /\ Len(result.v) > 0)
     => LET text == responses[1].content[1].text
        IN /\ text.pagination # "" <=> (Has(args, "page") \/ Has(args, "per_page"))
           /\ Has(args, "page") /\ ~Has(args, "per_page")
              => text.pagination = "Page " \o ToString(Field(args, "page").v)
                                   \o ", 100 per page"

C26_Witness ==
  /\ pc = "responded"
  /\ name = "get_wordpress_tags"
  /\ SuccessPath
  /\ result = Arr(<<ATerm>>)
  /\ Keys(args) = {}
  /\ requests[1].params.v.per_page = Num(100)
  /\ requests[1].params.v.page = Num(1)
  /\ responses[1].content[1].text.pagination = ""

\* The request of the invocation failed and handleApiError classified it
RemoteCallClassified ==
  /\ pc \in {"invocation_failed", "formatting", "responded"}
  /\ outcome.state = "rejected"
  /\ outcome.error.name = "AxiosError"

\* The positions of handleApiError's entry for the failure in the log
ClassificationEntries ==
  {i \in 1..Len(log) : log[i] = handleApiErrorLog(outcome.error) /\ log[i].level = "error"}

\* C27: when the request of an invocation fails, handleApiError's error
\* entry for the failure is in the log from the moment the failure is
\* classified; the step that hands over the response finds the entry
\* already written, and the entry of the call handler's catch block comes
\* after it.
C27_ErrorLoggedBeforeResponse ==
  /\ [](RemoteCallClassified
        => /\ ClassificationEntries # {}
           /\ \A j \in 1..Len(log) :
                log[j].message = "Tool execution failed: " \o name
                => \E i \in ClassificationEntries : i < j)
  /\ [][(/\ Len(responses') > Len(responses)
         /\ outcome.state = "rejected"
         /\ outcome.error.name = "AxiosError")
        => ClassificationEntries # {}]_vars

C27_Witness ==
  /\ pc = "responded"
  /\ name = "get_wordpress_post"
  /\ RemoteCallClassified
  /\ outcome.error.code = "ECONNREFUSED"
  /\ config.LOG_LEVEL = "error"
  /\ Len(log) = 3
  /\ log[1] = LogEntryWith("error", "WordPress API network error",
                           <<"connect ECONNREFUSED", "ECONNREFUSED">>)
  /\ log[3].message = "Tool execution failed: get_wordpress_post"
  /\ Len(responses) = 1
  /\ IsError(responses[1])

\* The invocation being served has the name, the arguments and the remote
\* answer of the remembered one, and its response is out
SameAnswerAsRemembered ==
  /\ pc = "responded"
  /\ "answer" \in DOMAIN remembered
  /\ remembered.name = name
  /\ remembered.args = args
  /\ remembered.answer = RemoteAnswer

\* C28: no invocation changes what a later one sees. The configuration stays
\* the one loaded at startup, and the client's base URL, credentials and
\* timeout stay the ones made from it, through every step of every
\* invocation; an invocation with the name, the arguments and the remote
\* answer of an earlier one gets the response the earlier one got, whatever
\* was served in between.
C28_InvocationsLeaveNoTrace ==
  /\ [](/\ loadConfig(env) = Return(config)
        /\ client = AxiosCreate(config)
        /\ client.baseURL = normalizeUrl(config.WORDPRESS_URL)
        /\ client.auth = [username |-> config.WORDPRESS_USERNAME,
                          password |-> config.WORDPRESS_APP_PASSWORD]
        /\ client.timeout = config.REQUEST_TIMEOUT)
  /\ [](SameAnswerAsRemembered => responses = remembered.responses)
  /\ [][config' = config /\ client' = client /\ env' = env]_vars

\* A deletion answered 404 gets the response of the earlier deletion
\* answered 404
C28_Witness ==
  /\ SameAnswerAsRemembered
  /\ outcome.state = "rejected"
  /\ Len(responses) = 1
  /\ IsError(responses[1])
  /\ responses = remembered.responses

\* The read of a connection test failed with an error handleApiError
\* classified, and the response is out
ConnectionTestFailed ==
  /\ name = "test_wordpress_connection"
  /\ pc = "responded"
  /\ outcome.state = "rejected"
  /\ outcome.error.name = "AxiosError"

\* C29: when the read of test_wordpress_connection fails with a classified
\* error (NETWORK_ERROR included), the one response is the FAILED banner
\* with the classified message, the URL and the username, and it has no
\* isError; no connection test, passed or failed, has a response with
\* isError or lets an error out of the call handler.
C29_ConnectionTestFailureIsOrdinary ==
  /\ ConnectionTestFailed
     => responses =
          <<[content |->
               <<[type |-> "text",
                  text |-> [kind |-> "connection_test",
                            banner |-> "FAILED",
                            message |-> Str(handleApiError(outcome.error).message),
                            url |-> config.WORDPRESS_URL,
                            username |-> config.WORDPRESS_USERNAME]]>>]>>
  /\ name = "test_wordpress_connection"
     => /\ escaped = NoError
        /\ \A i \in 1..Len(responses) : "isError" \notin DOMAIN responses[i]

C29_Witness ==
  /\ ConnectionTestFailed
  /\ handleApiError(outcome.error).code = "NETWORK_ERROR"
  /\ outcome.error.code = "ECONNABORTED"
  /\ responses[1].content[1].text.banner = "FAILED"
  /\ responses[1].content[1].text.message = Str(handleApiError(outcome.error).message)
  /\ DOMAIN responses[1] = {"content"}

\* The tools none of whose arguments is required
NoRequiredArgument ==
  {"list_wordpress_posts", "get_wordpress_categories", "get_wordpress_tags"}

\* C30: an invocation of list_wordpress_posts, get_wordpress_categories or
\* get_wordpress_tags with no argument payload at all is served like one
\* with an empty object: its validation passes and, once its response is
\* out, it has sent exactly one request.
C30_AbsentArgumentsAsEmpty ==
  (/\ name \in NoRequiredArgument
   /\ args = Undef
   /\ pc \in {"validation_failed", "formatting", "responded"})
  => /\ thrown.name # "ZodError"
     /\ pc # "validation_failed"
     /\ Len(requests) = 1

====
